---- MODULE Spec2Model ----
(***************************************************************************)
(* A model of the content-regeneration scripts of the repository           *)
(* (information.py, marketing.py, nav.py, publi_ad.py, publi_sup.py,       *)
(* publi_xls.py, xls.py) and of the wrapper focus.py.                      *)
(*                                                                         *)
(* Texts are sequences of one-character strings.  TLA+ strings are ASCII,  *)
(* so the Korean syllables the code matches on are transliterated to one   *)
(* upper-case letter each:                                                 *)
(*   S R = seo ron,  M J ' ' G H = mun je / sang hwang,                    *)
(*   I U ' ' T = sil mu / tip,  K R = gyeol ron.                           *)
(* Lower-case letters are ordinary content characters.                     *)
(***************************************************************************)
EXTENDS Integers, Sequences, FiniteSets, TLC

(***************************************************************************)
(* Text helpers                                                            *)
(***************************************************************************)

\* Python str.strip() / regex \s: the whitespace characters of the model.
Whitespace == {" ", "\n", "\t"}

\* The four section labels of clean_content's pattern, in pattern order.
Labels == << <<"S", "R">>, <<"M", "J", " ", "G", "H">>, <<"I", "U", " ", "T">>, <<"K", "R">> >>

\* t[p..] starts with the sequence w.
StartsAt(t, p, w) ==
    /\ p + Len(w) - 1 <= Len(t)
    /\ \A k \in 1..Len(w) : t[p + k - 1] = w[k]

\* Length of the label the alternation (l1|l2|l3|l4) matches at p, 0 if none.
LabelLenAt(t, p) ==
    IF \E n \in 1..Len(Labels) : StartsAt(t, p, Labels[n])
    THEN Len(Labels[CHOOSE n \in 1..Len(Labels) :
                      /\ StartsAt(t, p, Labels[n])
                      /\ \A m \in 1..(n - 1) : ~StartsAt(t, p, Labels[m])])
    ELSE 0

\* Number of consecutive whitespace characters of t from position p on (\s*).
RECURSIVE WsRun(_, _)
WsRun(t, p) ==
    IF p <= Len(t) /\ t[p] \in Whitespace THEN 1 + WsRun(t, p + 1) ELSE 0

\* (?m)^ : position p is the start of the text or follows a newline.
AtLineStart(t, p) == p = 1 \/ t[p - 1] = "\n"

\* Length of the match of  (?m)^(labels)[:\-]?\s*  at p, 0 if it does not match.
MatchLen(t, p) ==
    IF AtLineStart(t, p) /\ LabelLenAt(t, p) > 0
    THEN LET q == p + LabelLenAt(t, p)
             o == IF q <= Len(t) /\ t[q] \in {":", "-"} THEN 1 ELSE 0
         IN  LabelLenAt(t, p) + o + WsRun(t, q + o)
    ELSE 0

\* Length of the match of information.py's pattern (?m)^(labels)\[:-]?\s\*
\* at p: the label, then the literal characters "[", ":", "-", an optional
\* "]", exactly one whitespace character and a literal "*".
MatchLenEscaped(t, p) ==
    IF AtLineStart(t, p) /\ LabelLenAt(t, p) > 0
    THEN LET q == p + LabelLenAt(t, p)
             o == IF q + 3 <= Len(t) /\ t[q + 3] = "]" THEN 1 ELSE 0
         IN  IF /\ StartsAt(t, q, <<"[", ":", "-">>)
                /\ q + 4 + o <= Len(t)
                /\ t[q + 3 + o] \in Whitespace
                /\ t[q + 4 + o] = "*"
             THEN LabelLenAt(t, p) + 5 + o
             ELSE 0
    ELSE 0

\* re.sub(pattern, '', t) from position p on: matches are found left to
\* right on the original text and do not overlap.
RECURSIVE SubFrom(_, _, _)
SubFrom(t, p, escaped) ==
    IF p > Len(t) THEN <<>>
    ELSE LET m == IF escaped THEN MatchLenEscaped(t, p) ELSE MatchLen(t, p)
         IN  IF m > 0 THEN SubFrom(t, p + m, escaped)
                      ELSE <<t[p]>> \o SubFrom(t, p + 1, escaped)

\* str.strip()
RECURSIVE LStrip(_)
LStrip(t) == IF t # <<>> /\ Head(t) \in Whitespace THEN LStrip(Tail(t)) ELSE t

RECURSIVE RStrip(_)
RStrip(t) ==
    IF t # <<>> /\ t[Len(t)] \in Whitespace THEN RStrip(SubSeq(t, 1, Len(t) - 1)) ELSE t

Strip(t) == RStrip(LStrip(t))

(***************************************************************************)
(* The script variants                                                     *)
(***************************************************************************)

Scripts == {"information", "marketing", "nav", "publi_ad", "publi_sup", "publi_xls", "xls"}

\* clean_content of each script: the substitution, then strip().
clean_content(script, text) == Strip(SubFrom(text, 1, script = "information"))

\* The text handed to clean_content: nav.py, publi_sup.py, publi_xls.py and
\* xls.py strip the response first; the others pass it as received.
response_text(script, content) ==
    IF script \in {"nav", "publi_sup", "publi_xls", "xls"} THEN Strip(content) ELSE content

(***************************************************************************)
(* difflib.SequenceMatcher(None, a, b).ratio()                             *)
(***************************************************************************)

\* Length of the common run of a from i and b from j, inside [.., ahi) x [.., bhi).
RECURSIVE RunLen(_, _, _, _, _, _)
RunLen(a, b, i, j, ahi, bhi) ==
    IF i < ahi /\ j < bhi /\ a[i] = b[j] THEN 1 + RunLen(a, b, i + 1, j + 1, ahi, bhi) ELSE 0

\* find_longest_match without junk: <<i, j, k>>, the longest block
\* a[i..i+k) = b[j..j+k) inside a[alo..ahi) x b[blo..bhi); of the longest
\* blocks the one starting earliest in a, then earliest in b.
find_longest_match(a, b, alo, ahi, blo, bhi) ==
    LET Pairs == (alo..(ahi - 1)) \X (blo..(bhi - 1))
        run == [pr \in Pairs |-> RunLen(a, b, pr[1], pr[2], ahi, bhi)]
        Longest == {x \in Pairs : run[x] > 0 /\ \A y \in Pairs : run[y] <= run[x]}
    IN  IF Longest = {} THEN <<alo, blo, 0>>
        ELSE LET pr == CHOOSE x \in Longest :
                         \A y \in Longest :
                            x[1] < y[1] \/ (x[1] = y[1] /\ x[2] <= y[2])
             IN  <<pr[1], pr[2], run[pr]>>

\* Total size of get_matching_blocks(): the longest block, then the blocks
\* to its left and to its right.
RECURSIVE matching_size(_, _, _, _, _, _)
matching_size(a, b, alo, ahi, blo, bhi) ==
    LET m == find_longest_match(a, b, alo, ahi, blo, bhi)
    IN  IF m[3] = 0 THEN 0
        ELSE m[3]
             + (IF alo < m[1] /\ blo < m[2]
                THEN matching_size(a, b, alo, m[1], blo, m[2]) ELSE 0)
             + (IF m[1] + m[3] < ahi /\ m[2] + m[3] < bhi
                THEN matching_size(a, b, m[1] + m[3], ahi, m[2] + m[3], bhi) ELSE 0)

RECURSIVE GCD(_, _)
GCD(x, y) == IF y = 0 THEN x ELSE GCD(y, x % y)

\* A similarity is the exact fraction <<numerator, denominator>> in lowest terms.
Frac(n, d) == <<n \div GCD(n, d), d \div GCD(n, d)>>

Less(x, y) == x[1] * y[2] < y[1] * x[2]

\* Variant of ratio() that leaves out the factor 2.
calculate_similarity_half(a, b) ==
    IF Len(a) + Len(b) = 0 THEN <<1, 1>>
    ELSE Frac(matching_size(a, b, 1, Len(a) + 1, 1, Len(b) + 1), Len(a) + Len(b))

\* ratio(): 2.0 * matches / (len(a) + len(b)), and 1.0 when both are empty.
calculate_similarity(a, b) ==
    IF Len(a) + Len(b) = 0 THEN <<1, 1>>
    ELSE Frac(2 * matching_size(a, b, 1, Len(a) + 1, 1, Len(b) + 1), Len(a) + Len(b))

\* max(calculate_similarity(candidate, ex) for ex in existing_texts), corpus not empty.
max_similarity(candidate, texts) ==
    LET sims == {calculate_similarity(candidate, ex) : ex \in texts}
    IN  CHOOSE s \in sims : \A o \in sims : ~Less(s, o)

\* f"{score:.2f}": the score in hundredths, rounded half to even.
format_score(s) ==
    LET q == (100 * s[1]) \div s[2]
        r == (100 * s[1]) % s[2]
    IN  IF 2 * r < s[2] THEN q
        ELSE IF 2 * r > s[2] THEN q + 1
        ELSE IF q % 2 = 0 THEN q ELSE q + 1

(***************************************************************************)
(* Module constants and per-script policy of regenerate_unique_post        *)
(***************************************************************************)

MAX_RETRIES == 5

\* The module constant SIMILARITY_THRESHOLD of each script.
SIMILARITY_THRESHOLD(script) ==
    IF script \in {"information", "marketing"} THEN <<1, 2>> ELSE <<3, 5>>

\* Variant of loop_threshold that compares against the module constant in every loop.
loop_threshold_constant(script, phase) == SIMILARITY_THRESHOLD(script)

\* The threshold the loop compares against: marketing.py uses its local
\* threshold = 0.6 in the first loop and the literal 0.7 in the second; the
\* other scripts use their module constant.
loop_threshold(script, phase) ==
    IF script = "marketing"
    THEN (IF phase = 1 THEN <<3, 5>> ELSE <<7, 10>>)
    ELSE SIMILARITY_THRESHOLD(script)

\* The length hints, "2000<ja>", "2500<ja>", "3000<ja>".  A text field is
\* modelled by the set of hints that occur in it as substrings.
H2000 == "2000ja"
H2500 == "2500ja"
H3000 == "3000ja"
Hints == {H2000, H2500, H3000}

\* max_tokens of the rewrite request, from the hints of the last style field
\* (etc) and of the model name (mname).
max_tokens_of(script, etc, mname) ==
    CASE script \in {"nav", "publi_xls"} ->
            IF H3000 \in etc THEN 3000
            ELSE IF H2500 \in etc THEN 2500
            ELSE IF H2000 \in etc THEN 2000
            ELSE 3000
      [] script \in {"information", "marketing", "xls"} ->
            IF H2500 \in etc THEN 2500
            ELSE IF H2000 \in etc THEN 2000
            ELSE 3000
      [] script = "publi_ad" ->
            IF H2500 \in mname THEN 2500
            ELSE IF H2000 \in mname THEN 2000
            ELSE 3000
      [] script = "publi_sup" -> 2500

\* Scripts whose max(...) over the corpus has a value for an empty corpus
\* (default=0, or the conditional expression of publi_ad.py).
HasEmptyDefault(script) == script \in {"information", "publi_ad", "xls"}

\* Scripts in which an error of the rewrite request leaves the function.
Propagating == {"nav", "publi_sup", "publi_xls", "xls"}

\* The error kinds of the generation service.
ErrorKinds == {"InvalidRequestError", "APIRemovedInV1", "OtherError"}

\* Variant of FallbackKinds in which every script repeats the request after any error.
FallbackKinds_any(script) == ErrorKinds

\* The error kinds after which the script repeats the request of the same attempt.
FallbackKinds(script) ==
    CASE script = "publi_ad" -> {"InvalidRequestError"}
      [] script = "information" -> {"APIRemovedInV1"}
      [] OTHER -> {}

\* Scripts that keep a run_count cell on the prompt row.
RunCounting == {"information", "marketing", "nav"}

\* Scripts that process exactly one item per run.
SingleItem == {"information", "marketing"}

\* Scripts whose process_regeneration catches a failing append_row.
CatchesAppend == {"publi_xls", "xls"}

\* The auxiliary requests made for an item after the rewrite: the title,
\* the tags (not in information.py and marketing.py) and three translations
\* (in marketing.py only when the prompt row's usage is "all").
aux_requests(script, translate) ==
    1 + (IF script \in {"information", "marketing"} THEN 0 ELSE 1)
      + (IF script = "marketing" /\ ~translate THEN 0 ELSE 3)

(***************************************************************************)
(* Bounds and inputs                                                       *)
(***************************************************************************)

MaxCorpus == 2
MaxItems == 1
MaxInterval == 1

Original == <<"a", "b">>

\* The bodies a source row can have: a text, or an empty cell.
Originals == {Original, <<>>}

CorpusPool == {<<"a", "b">>, <<"a", "b", "c", "d", "e">>, <<"x", "y", "z">>}

\* The responses of the generation service.
Responses ==
    { <<"x", "y">>,
      <<"a", "b">>,
      <<"a">>,
      <<"a", "c">>,
      <<"a", "b", "c", "x", "y">>,
      <<"S", "R", ":", " ", "a", "b">>,
      <<" ", "K", "R", " ", "x", "y", "\n">> }

\* The corpora a script can be called with: marketing.py passes the bodies of
\* the other valid rows (none when one row is valid); the other scripts pass
\* the bodies of the source rows, the item's own among them.
Corpora(script) ==
    {c \in SUBSET CorpusPool :
        /\ Cardinality(c) <= MaxCorpus
        /\ script # "marketing" => Original \in c}

\* The corpora of a run whose item has an empty body: the other scripts'
\* corpus holds the item's own (empty) body, marketing.py's does not.
EmptyBodyCorpora(script) ==
    IF script = "marketing" THEN {{Original}} ELSE {{<<>>}, {<<>>, Original}}

NoRequest == [attempt |-> 0, ok |-> FALSE, cand |-> <<>>, err |-> "none"]
NoReturn == [text |-> <<>>, score |-> <<0, 1>>, tries |-> 0]
NoScore == <<>>

VARIABLES
    script,          \* the script that runs
    existing_texts,  \* the corpus passed to regenerate_unique_post
    etc_hints,       \* the hints in the last style field, prompt_cfg[-1]
    model_hints,     \* the hints in the model name
    translate,       \* marketing.py: the prompt row's usage asks for translations
    interval,        \* the prompt row's interval
    run_count,       \* the prompt row's run_count cell
    todo,            \* items still to process after the current one
    original,        \* the body of the current item, the argument original
    pc,              \* where the run is
    phase,           \* the loop of regenerate_unique_post (2: marketing.py's second)
    i,               \* the loop variable of the current loop
    regen,           \* regen
    score,           \* score
    max_tokens,      \* max_tokens of the latest rewrite request (0: none yet)
    requests,        \* rewrite requests made in this call
    lastreq,         \* the latest rewrite request: attempt number, outcome, cleaned candidate, error
    best,            \* lowest similarity of the candidates of this call
    evaluated,       \* candidates compared with the corpus in this call
    regen_at,        \* the attempt whose candidate regen holds (0: the original)
    ret,             \* what regenerate_unique_post returned
    aux,             \* auxiliary requests still to make for the item
    info_ws,         \* the rows of the target sheet
    total,           \* process_regeneration's counter of stored posts
    error,           \* the exception that ended the run
    focus,           \* state of the wrapper focus.py
    config,          \* the configuration a script is started with
    proc,            \* the locals of the runs that share a spreadsheet
    sheet,           \* the sheet a run reads and writes: raindrop.py rows, or the prompt sheet
    runs,            \* the runs that stored a run_count, in order
    cleaned          \* clean_content applied to original, and to that result

local_vars == <<phase, i, regen, score, max_tokens, requests, lastreq, best, evaluated, regen_at>>
regen_vars == <<phase, i, regen, score, max_tokens, requests, lastreq, best, evaluated, regen_at, ret>>
input_vars == <<script, existing_texts, etc_hints, model_hints, translate, interval>>
other_vars == <<config, proc, sheet, runs, cleaned>>
vars == <<script, existing_texts, etc_hints, model_hints, translate, interval, run_count,
          todo, original, config, proc, sheet, runs, cleaned, pc, phase, i, regen, score, max_tokens, requests, lastreq, best, evaluated,
          regen_at, ret,
          aux, info_ws, total, error, focus>>

\* The attempt number the current iteration reports.
AttemptNo == IF phase = 2 THEN MAX_RETRIES + i ELSE i

(***************************************************************************)
(* Initial states: one run of one script on bounded inputs.  The inputs    *)
(* vary one at a time around a base input.                                 *)
(***************************************************************************)

\* A row the target sheet holds from an earlier run.
PriorRow == [content |-> <<"x", "y", "z">>, score |-> 0]

BaseInput == [corpus |-> {Original}, etc |-> {}, mname |-> {}, translate |-> TRUE,
              interval |-> 1, run_count |-> 0, todo |-> 0, original |-> Original,
              target |-> <<>>]

Inputs(s) ==
    {[BaseInput EXCEPT !.corpus = c] : c \in Corpora(s)}
    \cup {[BaseInput EXCEPT !.original = <<>>, !.corpus = c] : c \in EmptyBodyCorpora(s)}
    \cup {[BaseInput EXCEPT !.etc = h] : h \in SUBSET Hints}
    \cup {[BaseInput EXCEPT !.target = <<PriorRow>>]}
    \cup (IF s = "publi_ad"
          THEN {[BaseInput EXCEPT !.etc = h, !.mname = m] :
                    h \in {{}, {H2000}}, m \in {{}, {H2000}, {H2500}, {H2000, H2500}}}
          ELSE {})
    \cup (IF s = "marketing" THEN {[BaseInput EXCEPT !.translate = FALSE]} ELSE {})
    \cup (IF s \in RunCounting
          THEN {[BaseInput EXCEPT !.interval = n, !.run_count = c] :
                    n \in 0..MaxInterval, c \in 0..MaxInterval}
          ELSE {})
    \cup (IF s \notin SingleItem
          THEN {[BaseInput EXCEPT !.todo = n] : n \in 0..(MaxItems - 1)}
          ELSE {})

\* The value of config where the start of the script is not looked at.
NoConfig == [json |-> "valid", api_key |-> TRUE, columns |-> TRUE, step |-> 0]

FocusIdle == [pc |-> "idle", next |-> 0, exists |-> <<>>, exits |-> <<>>,
              started |-> <<>>, returned |-> <<>>, status |-> 0, message |-> FALSE]

\* The state of regenerate_unique_post on entry.
CallEntry ==
    /\ phase = 1
    /\ i = 1
    /\ regen = original
    /\ score = <<1, 1>>
    /\ max_tokens = 0
    /\ requests = 0
    /\ lastreq = NoRequest
    /\ best = NoScore
    /\ evaluated = 0
    /\ regen_at = 0
    /\ ret = NoReturn

Init ==
    /\ script \in Scripts
    /\ \E in \in Inputs(script) :
          /\ existing_texts = in.corpus
          /\ etc_hints = in.etc
          /\ model_hints = in.mname
          /\ translate = in.translate
          /\ interval = in.interval
          /\ run_count = in.run_count
          /\ todo = in.todo
          /\ original = in.original
          /\ info_ws = in.target
    /\ pc = "item"
    /\ CallEntry
    /\ aux = 0
    /\ total = 0
    /\ error = "none"
    /\ focus = FocusIdle
    /\ config = NoConfig
    /\ proc = <<>>
    /\ sheet = <<>>
    /\ runs = <<>>
    /\ cleaned = <<>>

(***************************************************************************)
(* regenerate_unique_post                                                  *)
(***************************************************************************)

\* The acceptance test of an attempt: sim < threshold.
accepts(s, ph, sim) == Less(sim, loop_threshold(s, ph))

\* The similarity of a candidate against a corpus for which max() has a value.
similarity_of(cand, texts) ==
    IF texts = {} THEN <<0, 1>> ELSE max_similarity(cand, texts)

\* The attempt count returned when the loops are exhausted.
exhausted_tries(s) == IF s = "marketing" THEN MAX_RETRIES * 2 ELSE MAX_RETRIES

\* Variant of on_error that logs every error and goes on with the loop.
on_error_swallow(s, kind) ==
    IF kind \in FallbackKinds(s) THEN "fallback" ELSE "continue"

\* Variant of on_error that lets every error leave the function.
on_error_raise(s, kind) ==
    IF kind \in FallbackKinds(s) THEN "fallback" ELSE "raise"

\* What the loop does after a failed request of the given kind.
on_error(s, kind) ==
    IF kind \in FallbackKinds(s) THEN "fallback"
    ELSE IF s = "marketing" THEN "continue"
    ELSE "raise"

\* Variant of exhausted_result that returns the original text.
exhausted_result_original(s, rg, sc) ==
    [text |-> Original, score |-> sc, tries |-> exhausted_tries(s)]

\* Variant of exhausted_result that reports the lowest score seen before.
exhausted_result_best(s, rg, sc) ==
    [text |-> rg,
     score |-> (IF best # NoScore /\ Less(best, sc) THEN best ELSE sc),
     tries |-> exhausted_tries(s)]

\* Variant of exhausted_result that reports the score the call started with.
exhausted_result_unscored(s, rg, sc) ==
    [text |-> rg, score |-> <<1, 1>>, tries |-> exhausted_tries(s)]

\* What is returned when the loops are exhausted: the latest regen and score.
exhausted_result(s, rg, sc) == [text |-> rg, score |-> sc, tries |-> exhausted_tries(s)]

\* The end of an iteration that did not return: the next iteration, the
\* second loop of marketing.py, or the return after the last iteration.
Continue(rg, sc, at) ==
    /\ regen' = rg
    /\ score' = sc
    /\ regen_at' = at
    /\ IF i < MAX_RETRIES
       THEN /\ i' = i + 1
            /\ pc' = "request"
            /\ UNCHANGED <<phase, ret>>
       ELSE IF script = "marketing" /\ phase = 1
       THEN /\ phase' = 2
            /\ i' = 1
            /\ pc' = "request"
            /\ UNCHANGED ret
       ELSE /\ pc' = "returned"
            /\ ret' = exhausted_result(script, rg, sc)
            /\ UNCHANGED <<phase, i>>

\* The rest of an iteration after a response: clean the candidate, compare
\* it with the corpus, return it or go on.
Evaluate(raw) ==
    LET cand == clean_content(script, response_text(script, raw))
    IN  /\ lastreq' = [attempt |-> AttemptNo, ok |-> TRUE, cand |-> cand, err |-> "none"]
        /\ IF existing_texts = {} /\ ~HasEmptyDefault(script)
           THEN /\ pc' = "raised"
                /\ error' = "ValueError"
                /\ regen' = (IF script = "publi_sup" THEN cand ELSE regen)
                /\ regen_at' = (IF script = "publi_sup" THEN AttemptNo ELSE regen_at)
                /\ UNCHANGED <<phase, i, score, best, evaluated, ret>>
           ELSE LET sim == similarity_of(cand, existing_texts)
                IN  /\ best' = (IF best = NoScore \/ Less(sim, best) THEN sim ELSE best)
                    /\ evaluated' = evaluated + 1
                    /\ error' = error
                    /\ IF accepts(script, phase, sim)
                       THEN /\ ret' = [text |-> cand, score |-> sim, tries |-> AttemptNo]
                            /\ pc' = "returned"
                            /\ regen' = (IF script = "publi_sup" THEN cand ELSE regen)
                            /\ score' = (IF script = "publi_sup" THEN sim ELSE score)
                            /\ regen_at' = (IF script = "publi_sup" THEN AttemptNo ELSE regen_at)
                            /\ UNCHANGED <<phase, i>>
                       ELSE Continue(cand, sim, AttemptNo)

\* The request of an attempt is answered.
RequestOk(raw) ==
    /\ pc = "request"
    /\ requests' = requests + 1
    /\ max_tokens' = max_tokens_of(script, etc_hints, model_hints)
    /\ Evaluate(raw)
    /\ UNCHANGED <<input_vars, other_vars, run_count, todo, original, aux, info_ws, total, focus>>

\* The request of an attempt fails.
RequestFail(kind) ==
    /\ pc = "request"
    /\ requests' = requests + 1
    /\ max_tokens' = max_tokens_of(script, etc_hints, model_hints)
    /\ lastreq' = [attempt |-> AttemptNo, ok |-> FALSE, cand |-> <<>>, err |-> kind]
    /\ CASE on_error(script, kind) = "fallback" ->
               /\ pc' = "fallback"
               /\ UNCHANGED <<phase, i, regen, score, regen_at, ret, error>>
         [] on_error(script, kind) = "continue" ->
               /\ Continue(regen, score, regen_at)
               /\ UNCHANGED error
         [] OTHER ->
               /\ pc' = "raised"
               /\ error' = "RewriteError"
               /\ UNCHANGED <<phase, i, regen, score, regen_at, ret>>
    /\ UNCHANGED <<input_vars, other_vars, run_count, todo, original, best, evaluated, aux, info_ws, total, focus>>

\* The repeated request of an attempt (publi_ad.py with 'gpt-3.5-turbo',
\* information.py with the same arguments) is answered.
FallbackOk(raw) ==
    /\ pc = "fallback"
    /\ requests' = requests + 1
    /\ Evaluate(raw)
    /\ UNCHANGED <<input_vars, other_vars, run_count, todo, original, max_tokens, aux, info_ws, total, focus>>

\* The repeated request fails: the error leaves the function.
FallbackFail(kind) ==
    /\ pc = "fallback"
    /\ requests' = requests + 1
    /\ lastreq' = [attempt |-> AttemptNo, ok |-> FALSE, cand |-> <<>>, err |-> kind]
    /\ pc' = "raised"
    /\ error' = "RewriteError"
    /\ UNCHANGED <<input_vars, other_vars, run_count, todo, original, phase, i, regen, score, max_tokens, best,
                   evaluated, regen_at, ret, aux, info_ws, total, focus>>

(***************************************************************************)
(* process_regeneration: what follows the rewrite of an item               *)
(***************************************************************************)

\* Variant of new_count that stays at the interval instead of starting over.
new_count_keep(prev_count, n) == IF prev_count < n THEN prev_count + 1 ELSE n

\* The run_count written after a stored post.
new_count(prev_count, n) == IF prev_count < n THEN prev_count + 1 ELSE 0

\* After an item: the next item of the loop, or the end of the run.  In
\* nav.py the next item belongs to another prompt row with its own run_count.
NextItem ==
    IF todo > 0
    THEN /\ todo' = todo - 1
         /\ original' \in {o \in Originals : script = "marketing" \/ o \in existing_texts}
         /\ pc' = "item"
         /\ ret' = NoReturn
         /\ UNCHANGED local_vars
    ELSE /\ pc' = "finished"
         /\ UNCHANGED <<todo, original, regen_vars>>

\* Scripts whose loop skips an item with an empty body.
SkipsEmpty == {"publi_xls", "xls"}

\* The caller reaches an item: xls.py and publi_xls.py skip it when its body
\* is empty; otherwise regenerate_unique_post is called with it.
BeginItem ==
    /\ pc = "item"
    /\ IF script \in SkipsEmpty /\ original = <<>>
       THEN NextItem
       ELSE /\ pc' = "request"
            /\ regen' = original
            /\ UNCHANGED <<todo, original, phase, i, score, max_tokens, requests, lastreq,
                           best, evaluated, regen_at, ret>>
    /\ UNCHANGED <<input_vars, other_vars, run_count, aux, info_ws, total, error, focus>>

\* regenerate_unique_post has returned: its locals are gone, the caller keeps
\* the returned triple and goes on to the title.
ReceiveResult ==
    /\ pc = "returned"
    /\ pc' = "aux"
    /\ aux' = aux_requests(script, translate)
    /\ phase' = 1
    /\ i' = 1
    /\ regen' = original
    /\ score' = <<1, 1>>
    /\ max_tokens' = 0
    /\ requests' = 0
    /\ lastreq' = NoRequest
    /\ best' = NoScore
    /\ evaluated' = 0
    /\ regen_at' = 0
    /\ UNCHANGED <<input_vars, other_vars, run_count, todo, original, ret, info_ws, total, error, focus>>

\* An auxiliary request (title, tags, translation) is answered.
AuxOk ==
    /\ pc \in {"aux", "aux_fallback"}
    /\ aux' = aux - 1
    /\ pc' = (IF aux = 1 THEN "append" ELSE "aux")
    /\ UNCHANGED <<input_vars, other_vars, run_count, todo, original, regen_vars, info_ws, total, error, focus>>

\* Variant of aux_on_error in which every script repeats the request.
aux_on_error_any(s, kind) == IF kind = "APIRemovedInV1" THEN "fallback" ELSE "raise"

\* What regenerate_title, extract_tags and translate_text do with an error
\* of their request: information.py's except clause repeats the request with
\* a new client after an APIRemovedInV1 or AttributeError and re-raises the
\* rest; the other scripts have no handler.
aux_on_error(s, kind) ==
    IF s = "information" /\ kind = "APIRemovedInV1" THEN "fallback" ELSE "raise"

\* Variant of AuxFail in which the caller ignores the error of an auxiliary
\* request and goes on to append the row.
AuxFail_ignored(kind) ==
    /\ pc \in {"aux", "aux_fallback"}
    /\ pc' = "append"
    /\ UNCHANGED <<input_vars, other_vars, run_count, todo, original, regen_vars, aux, info_ws,
                   total, error, focus>>

\* An auxiliary request fails: information.py repeats it once with a new
\* client after an APIRemovedInV1 or AttributeError; every other error, and
\* an error of the repeated request, leaves process_regeneration.
AuxFail(kind) ==
    /\ pc \in {"aux", "aux_fallback"}
    /\ IF pc = "aux" /\ aux_on_error(script, kind) = "fallback"
       THEN pc' = "aux_fallback" /\ UNCHANGED error
       ELSE pc' = "raised" /\ error' = "AuxError"
    /\ UNCHANGED <<input_vars, other_vars, run_count, todo, original, regen_vars, aux, info_ws, total, focus>>

\* Variant of target_row that stores the original text.
target_row_original(r) == [content |-> Original, score |-> format_score(r.score)]

\* The row appended to the target sheet for a returned triple: of its columns
\* the model keeps the content and the formatted score.
target_row(r) == [content |-> r.text, score |-> format_score(r.score)]

\* info_ws.append_row succeeds.
AppendOk ==
    /\ pc = "append"
    /\ info_ws' = Append(info_ws, target_row(ret))
    /\ total' = (IF script \in {"nav", "publi_sup"} THEN total + 1 ELSE total)
    /\ IF script \in RunCounting
       THEN pc' = "update" /\ UNCHANGED <<todo, original, regen_vars>>
       ELSE NextItem
    /\ UNCHANGED <<input_vars, other_vars, run_count, aux, error, focus>>

\* info_ws.append_row fails: xls.py and publi_xls.py log it and go on.
AppendFail ==
    /\ pc = "append"
    /\ IF script \in CatchesAppend
       THEN NextItem /\ UNCHANGED error
       ELSE pc' = "raised" /\ error' = "AppendError" /\ UNCHANGED <<todo, original, regen_vars>>
    /\ UNCHANGED <<input_vars, other_vars, run_count, aux, info_ws, total, focus>>

\* prompt_ws.update_cell stores the new run_count.
UpdateOk ==
    /\ pc = "update"
    /\ total' = (IF script = "information" THEN total + 1 ELSE total)
    /\ IF todo > 0
       THEN run_count' \in 0..MaxInterval
       ELSE run_count' = new_count(run_count, interval)
    /\ NextItem
    /\ UNCHANGED <<input_vars, other_vars, aux, info_ws, error, focus>>

\* prompt_ws.update_cell fails.
UpdateFail ==
    /\ pc = "update"
    /\ pc' = "raised"
    /\ error' = "UpdateError"
    /\ UNCHANGED <<input_vars, other_vars, run_count, todo, original, regen_vars, aux, info_ws, total, focus>>

Next ==
    \/ BeginItem
    \/ \E raw \in Responses : RequestOk(raw)
    \/ \E kind \in ErrorKinds : RequestFail(kind)
    \/ \E raw \in Responses : FallbackOk(raw)
    \/ \E kind \in ErrorKinds : FallbackFail(kind)
    \/ ReceiveResult
    \/ AuxOk
    \/ \E kind \in ErrorKinds : AuxFail(kind)
    \/ AppendOk
    \/ AppendFail
    \/ UpdateOk
    \/ UpdateFail

Spec == Init /\ [][Next]_vars

(***************************************************************************)
(* focus.py: the wrapper that runs the scripts one after another           *)
(***************************************************************************)

\* The run_script calls of main, in program order.
Sequence == <<"raindrop.py", "publi_ad.py", "xls.py", "image.py", "publi_sup.py", "publi_xls.py">>

Files == {Sequence[n] : n \in 1..Len(Sequence)}

\* The required argument of each call (default True).
Required(file) == file \notin {"xls.py", "image.py"}

\* Variant of Guard in which main calls run_script for every file.
Guard_always(file, exists) == TRUE

\* The guard of a call in main: publi_xls.py is run only if os.path.isfile("xls.py").
Guard(file, exists) == file = "publi_xls.py" => exists["xls.py"]

\* Variant of on_failure that never ends the process.
on_failure_return(required) == "return_false"

\* Variant of on_failure that always ends the process.
on_failure_exit(required) == "exit"

\* What run_script does when the file is missing or the script exits
\* non-zero: exit(1) when required, return False otherwise.
on_failure(required) == IF required THEN "exit" ELSE "return_false"

InitFocus ==
    /\ script = "focus"
    /\ existing_texts = {}
    /\ etc_hints = {}
    /\ model_hints = {}
    /\ translate = TRUE
    /\ interval = 1
    /\ run_count = 0
    /\ todo = 0
    /\ original = Original
    /\ config = NoConfig
    /\ proc = <<>>
    /\ sheet = <<>>
    /\ runs = <<>>
    /\ cleaned = <<>>
    /\ pc = "idle"
    /\ CallEntry
    /\ aux = 0
    /\ info_ws = <<>>
    /\ total = 0
    /\ error = "none"
    /\ \E ex \in [Files -> BOOLEAN] :
          focus = [pc |-> "main", next |-> 1, exists |-> ex, exits |-> <<>>,
                   started |-> <<>>, returned |-> <<>>, status |-> 0, message |-> FALSE]

non_focus_vars == <<input_vars, other_vars, run_count, todo, original, pc, regen_vars, aux,
                    info_ws, total, error>>

CurrentFile == Sequence[focus.next]

\* main reaches a run_script call whose guard is false: the call is skipped.
FocusSkip ==
    /\ focus.pc = "main"
    /\ focus.next <= Len(Sequence)
    /\ ~Guard(CurrentFile, focus.exists)
    /\ focus' = [focus EXCEPT !.next = @ + 1]
    /\ UNCHANGED non_focus_vars

\* run_script finds no file.
FocusMissing ==
    /\ focus.pc = "main"
    /\ focus.next <= Len(Sequence)
    /\ Guard(CurrentFile, focus.exists)
    /\ ~focus.exists[CurrentFile]
    /\ IF on_failure(Required(CurrentFile)) = "exit"
       THEN focus' = [focus EXCEPT !.pc = "exited", !.status = 1]
       ELSE focus' = [focus EXCEPT !.next = @ + 1,
                                   !.returned = Append(@, <<CurrentFile, FALSE>>)]
    /\ UNCHANGED non_focus_vars

\* run_script starts the script with subprocess.run and waits for it.
FocusStart ==
    /\ focus.pc = "main"
    /\ focus.next <= Len(Sequence)
    /\ Guard(CurrentFile, focus.exists)
    /\ focus.exists[CurrentFile]
    /\ focus' = [focus EXCEPT !.pc = "running", !.started = Append(@, CurrentFile)]
    /\ UNCHANGED non_focus_vars

\* The script exits with status 0: run_script returns True.
FocusExitZero ==
    /\ focus.pc = "running"
    /\ focus' = [focus EXCEPT !.pc = "main", !.next = @ + 1,
                              !.exits = Append(@, <<CurrentFile, 0>>),
                              !.returned = Append(@, <<CurrentFile, TRUE>>)]
    /\ UNCHANGED non_focus_vars

\* The script exits non-zero: subprocess.run raises CalledProcessError.
FocusExitNonZero ==
    /\ focus.pc = "running"
    /\ IF on_failure(Required(CurrentFile)) = "exit"
       THEN focus' = [focus EXCEPT !.pc = "exited", !.status = 1,
                                   !.exits = Append(@, <<CurrentFile, 1>>)]
       ELSE focus' = [focus EXCEPT !.pc = "main", !.next = @ + 1,
                                   !.exits = Append(@, <<CurrentFile, 1>>),
                                   !.returned = Append(@, <<CurrentFile, FALSE>>)]
    /\ UNCHANGED non_focus_vars

\* main prints the completion message and ends.
FocusFinish ==
    /\ focus.pc = "main"
    /\ focus.next = Len(Sequence) + 1
    /\ focus' = [focus EXCEPT !.pc = "done", !.message = TRUE]
    /\ UNCHANGED non_focus_vars

NextFocus ==
    \/ FocusSkip
    \/ FocusMissing
    \/ FocusStart
    \/ FocusExitZero
    \/ FocusExitNonZero
    \/ FocusFinish

SpecFocus == InitFocus /\ [][NextFocus]_vars

(***************************************************************************)
(* Successive runs of a run_count script on one prompt row: each run reads *)
(* the stored run_count, chooses the model, and after the append stores    *)
(* the new run_count.  The rewrite itself is what Spec describes; here a   *)
(* run either gets as far as the append and the update or fails before.    *)
(***************************************************************************)

MaxRuns == 6

\* The model a run uses: the basic model up to the interval, then the advanced one.
use_model_of(prev_count, n) == IF prev_count < n THEN "basic" ELSE "advanced"

\* The locals of a run that has not read the prompt sheet yet.
IdleRun == [pc |-> "idle", prev_count |-> 0, use_model |-> "none", new_count |-> 0]

\* The variables of process_regeneration's item pipeline, at rest.
PipelineIdle ==
    /\ existing_texts = {}
    /\ etc_hints = {}
    /\ model_hints = {}
    /\ translate = TRUE
    /\ todo = 0
    /\ original = Original
    /\ pc = "idle"
    /\ CallEntry
    /\ aux = 0
    /\ total = 0
    /\ error = "none"
    /\ focus = FocusIdle
    /\ config = NoConfig

pipeline_vars == <<existing_texts, etc_hints, model_hints, translate, todo, original, pc,
                   regen_vars, aux, total, error, focus, config, cleaned>>

InitRuns ==
    /\ script \in RunCounting
    /\ interval \in 0..(MaxInterval + 1)
    /\ run_count \in 0..(MaxInterval + 2)
    /\ proc = [p \in {1} |-> IdleRun]
    /\ runs = <<>>
    /\ cleaned = <<>>
    /\ info_ws = <<>>
    /\ sheet = <<>>
    /\ PipelineIdle

\* A run reads the prompt row: prev_count, use_model and new_count.
RunRead(p) ==
    /\ script \in RunCounting
    /\ proc[p].pc = "idle"
    /\ proc' = [proc EXCEPT ![p] = [pc |-> "chosen",
                                    prev_count |-> run_count,
                                    use_model |-> use_model_of(run_count, interval),
                                    new_count |-> new_count(run_count, interval)]]
    /\ UNCHANGED <<script, interval, run_count, runs, info_ws, sheet, pipeline_vars>>

\* The rewrite, the title and the translations succeeded: the row is appended.
RunAppend(p) ==
    /\ proc[p].pc = "chosen"
    /\ info_ws' = Append(info_ws, [model |-> proc[p].use_model, by |-> p])
    /\ proc' = [proc EXCEPT ![p].pc = "appended"]
    /\ UNCHANGED <<script, interval, run_count, runs, sheet, pipeline_vars>>

\* update_cell stores new_count: the run has succeeded.
RunUpdate(p) ==
    /\ proc[p].pc = "appended"
    /\ run_count' = proc[p].new_count
    /\ runs' = Append(runs, [by |-> p,
                             count |-> proc[p].prev_count,
                             model |-> proc[p].use_model,
                             stored |-> proc[p].new_count])
    /\ proc' = [proc EXCEPT ![p].pc = "ended"]
    /\ UNCHANGED <<script, interval, info_ws, sheet, pipeline_vars>>

\* A request, the append or the update fails: the run ends with the
\* exception and stores nothing more.
RunFail(p) ==
    /\ proc[p].pc \in {"chosen", "appended"}
    /\ proc' = [proc EXCEPT ![p].pc = "ended"]
    /\ UNCHANGED <<script, interval, run_count, runs, info_ws, sheet, pipeline_vars>>

\* The script is run again after the previous run has ended.
RunAgain(p) ==
    /\ proc[p].pc = "ended"
    /\ Len(runs) < MaxRuns
    /\ Len(info_ws) < MaxRuns
    /\ proc' = [proc EXCEPT ![p] = IdleRun]
    /\ UNCHANGED <<script, interval, run_count, runs, info_ws, sheet, pipeline_vars>>

NextRuns ==
    \/ \E p \in DOMAIN proc : RunRead(p)
    \/ \E p \in DOMAIN proc : RunAppend(p)
    \/ \E p \in DOMAIN proc : RunUpdate(p)
    \/ \E p \in DOMAIN proc : RunFail(p)
    \/ \E p \in DOMAIN proc : RunAgain(p)

SpecRuns == InitRuns /\ [][NextRuns]_vars

(***************************************************************************)
(* The start of a script: the module-level checks of the configuration,    *)
(* the worksheets, information.py's check of the prompt sheet's columns,   *)
(* and then the work.                                                      *)
(***************************************************************************)

AllScripts == Scripts \cup {"raindrop", "image"}

\* The service-account JSON of the environment: absent, not parsable,
\* without a private_key, with a private_key that is no PEM key, or valid.
JsonKinds == {"missing", "malformed", "no_private_key", "bad_private_key", "valid"}

\* The steps a script takes before its work, in program order.  publi_ad.py
\* has no check of the private key of its own: the credentials are built,
\* and a bad key is rejected, in init_worksheet.
StartupSteps(s) ==
    CASE s = "publi_ad" -> <<"json_parse", "api_key", "credentials", "worksheets">>
      [] s = "raindrop" -> <<"env_present", "json_parse", "private_key">>
      [] s = "image" -> <<"json_present", "json_parse", "private_key", "worksheets">>
      [] s = "information" ->
            <<"json_present", "json_parse", "private_key", "api_key", "worksheets", "columns">>
      [] OTHER -> <<"json_present", "json_parse", "private_key", "api_key", "worksheets">>

\* Variant of passes in which the private key only has to be present.
passes_key_present(step, c) ==
    CASE step = "env_present" -> c.json # "missing" /\ c.api_key
      [] step = "json_present" -> c.json # "missing"
      [] step = "json_parse" -> c.json \notin {"missing", "malformed"}
      [] step \in {"private_key", "credentials"} -> c.json \in {"bad_private_key", "valid"}
      [] step = "api_key" -> c.api_key
      [] step = "columns" -> c.columns
      [] OTHER -> TRUE

\* Whether a step goes through with the configuration c.
passes(step, c) ==
    CASE step = "env_present" -> c.json # "missing" /\ c.api_key
      [] step = "json_present" -> c.json # "missing"
      [] step = "json_parse" -> c.json \notin {"missing", "malformed"}
      [] step \in {"private_key", "credentials"} -> c.json = "valid"
      [] step = "api_key" -> c.api_key
      [] step = "columns" -> c.columns
      [] OTHER -> TRUE

\* Scripts whose init_worksheet call for the target sheet passes a header.
WritesHeader == {"nav", "publi_ad", "publi_sup", "publi_xls", "xls"}

HeaderRow == [content |-> <<"h">>, score |-> 0]

startup_rest == <<existing_texts, etc_hints, model_hints, translate, interval, todo, original,
                  phase, i, regen, score, max_tokens, lastreq, best, evaluated, regen_at, ret,
                  aux, total, focus, proc, runs, cleaned>>

InitStartup ==
    /\ script \in AllScripts
    /\ config \in [json : JsonKinds, api_key : BOOLEAN, columns : BOOLEAN, step : {1}]
    /\ config.columns \/ script = "information"
    /\ info_ws \in {<<>>, <<PriorRow>>}
    /\ pc = "startup"
    /\ error = "none"
    /\ run_count = 0
    /\ sheet = <<>>
    /\ existing_texts = {}
    /\ etc_hints = {}
    /\ model_hints = {}
    /\ translate = TRUE
    /\ interval = 1
    /\ todo = 0
    /\ original = Original
    /\ CallEntry
    /\ aux = 0
    /\ total = 0
    /\ focus = FocusIdle
    /\ proc = <<>>
    /\ runs = <<>>
    /\ cleaned = <<>>

CurrentStep == StartupSteps(script)[config.step]

\* A step goes through.  Opening the worksheets writes the header row into
\* an empty target sheet.
StartupPass ==
    /\ pc = "startup"
    /\ config.step <= Len(StartupSteps(script))
    /\ passes(CurrentStep, config)
    /\ config' = [config EXCEPT !.step = @ + 1]
    /\ info_ws' = (IF CurrentStep = "worksheets" /\ script \in WritesHeader /\ info_ws = <<>>
                   THEN <<HeaderRow>> ELSE info_ws)
    /\ UNCHANGED <<script, pc, error, requests, run_count, sheet, startup_rest>>

\* A step raises: the script ends with the exception.
StartupRaise ==
    /\ pc = "startup"
    /\ config.step <= Len(StartupSteps(script))
    /\ ~passes(CurrentStep, config)
    /\ pc' = "raised"
    /\ error' = "ConfigError"
    /\ UNCHANGED <<script, config, requests, run_count, sheet, info_ws, startup_rest>>

\* All steps went through: the work starts.
StartWork ==
    /\ pc = "startup"
    /\ config.step = Len(StartupSteps(script)) + 1
    /\ pc' = "working"
    /\ UNCHANGED <<script, config, error, requests, run_count, sheet, info_ws, startup_rest>>

\* The work of the script: a generation request, a row, a cell.
\* image.py only reads.
Work ==
    /\ pc = "working"
    /\ script # "image"
    /\ requests = 0
    /\ requests' = 1
    /\ \/ /\ script = "raindrop"
          /\ sheet' = Append(sheet, "link")
          /\ UNCHANGED <<info_ws, run_count>>
       \/ /\ script # "raindrop"
          /\ info_ws' = Append(info_ws, [content |-> Original, score |-> 0])
          /\ run_count' = (IF script \in RunCounting THEN 1 ELSE 0)
          /\ UNCHANGED sheet
    /\ pc' = "finished"
    /\ UNCHANGED <<script, config, error, startup_rest>>

NextStartup ==
    \/ StartupPass
    \/ StartupRaise
    \/ StartWork
    \/ Work

SpecStartup == InitStartup /\ [][NextStartup]_vars

(***************************************************************************)
(* Two runs of one script at the same time on the same spreadsheet:        *)
(* raindrop.py (fetch_and_process_raindrop) and the run_count scripts.     *)
(***************************************************************************)

MaxBookmarks == 2

Links == {"l1", "l2"}

\* A bookmark of the Raindrop API: its link, and whether title, link and
\* tags are all there.
Bookmarks == [link : Links, valid : BOOLEAN]

RECURSIVE SeqsUpTo(_, _)
SeqsUpTo(S, n) ==
    IF n = 0 THEN {<<>>}
    ELSE LET shorter == SeqsUpTo(S, n - 1)
         IN  shorter \cup {Append(q, x) : q \in {r \in shorter : Len(r) = n - 1}, x \in S}

\* The lists of bookmarks a run can fetch.
ItemLists == SeqsUpTo(Bookmarks, MaxBookmarks)

\* The locals of a run of raindrop.py that has not fetched anything yet.
IdleRaindrop == [pc |-> "idle", items |-> <<>>, existing_links |-> {}, snapshot |-> {},
                 pos |-> 1, added |-> 0, requests |-> 0, gpt |-> "any"]

\* range(3) of generate_blog_style_summary
SUMMARY_TRIES == 3

\* What generate_blog_style_summary returns without an answer.
GPT_FAILED == "[GPT saengseong silpae]"
NO_PROMPT == "[peurompeuteu jeongbo eopseum]"

\* The answers the service can give to the requests of one summary: TRUE is
\* a response, FALSE an exception.
Answers == [1..SUMMARY_TRIES -> BOOLEAN]

\* generate_blog_style_summary: the summary returned and the requests made.
\* Without a prompt row no request is made; otherwise the first response is
\* returned, and the placeholder after range(3) is used up.
generate_blog_style_summary(has_prompt, answers) ==
    IF ~has_prompt THEN [summary |-> NO_PROMPT, requests |-> 0]
    ELSE IF \E k \in DOMAIN answers : answers[k]
         THEN [summary |-> "text",
               requests |-> CHOOSE k \in DOMAIN answers :
                               answers[k] /\ \A m \in 1..(k - 1) : ~answers[m]]
         ELSE [summary |-> GPT_FAILED, requests |-> SUMMARY_TRIES]

\* What a run can meet: with "up" a prompt row exists and the service
\* answers every request, with "any" neither is certain.
PromptRows(gpt) == IF gpt = "up" THEN {TRUE} ELSE BOOLEAN
AnswersOf(gpt) == IF gpt = "up" THEN {[k \in 1..SUMMARY_TRIES |-> TRUE]} ELSE Answers

\* Variant of links_of that reads no link from the sheet.
links_of_none(rows) == {}

\* set(sheet.col_values(4)[1:])
links_of(rows) == {rows[k].link : k \in 1..Len(rows)}

\* Variant of links_after_append that forgets the link just appended.
links_after_append_same(existing, link) == existing

\* existing_links.add(link)
links_after_append(existing, link) == existing \cup {link}

InitRace ==
    /\ script \in {"raindrop", "information", "nav"}
    /\ interval \in 0..MaxInterval
    /\ run_count \in 0..MaxInterval
    /\ proc = [p \in {1, 2} |-> IF script = "raindrop"
                                 THEN [IdleRaindrop EXCEPT !.gpt = "up"]
                                 ELSE IdleRun]
    /\ runs = <<>>
    /\ cleaned = <<>>
    /\ info_ws = <<>>
    /\ sheet \in {<<>>, <<[link |-> "l1", by |-> 0, summary |-> "text"]>>}
    /\ script = "raindrop" => (interval = 0 /\ run_count = 0)
    /\ script # "raindrop" => sheet = <<>>
    /\ PipelineIdle

race_rest == <<script, interval, run_count, runs, info_ws, pipeline_vars>>

\* A run fetches the bookmarks and reads the links the sheet holds.
RaindropBegin(p) ==
    /\ script = "raindrop"
    /\ proc[p].pc = "idle"
    /\ \E items \in ItemLists :
          proc' = [proc EXCEPT ![p] = [pc |-> "loop", items |-> items,
                                       existing_links |-> links_of(sheet),
                                       snapshot |-> links_of(sheet),
                                       pos |-> 1, added |-> 0, requests |-> 0,
                                       gpt |-> proc[p].gpt]]
    /\ UNCHANGED <<sheet, race_rest>>

CurrentItem(p) == proc[p].items[proc[p].pos]

\* The item lacks a title, a link or tags, its link is among existing_links,
\* or no text could be extracted from its page: continue.
RaindropSkip(p) ==
    /\ script = "raindrop"
    /\ proc[p].pc = "loop"
    /\ proc[p].pos <= Len(proc[p].items)
    /\ proc' = [proc EXCEPT ![p].pos = @ + 1]
    /\ UNCHANGED <<sheet, race_rest>>

\* The item is complete and its link is not among existing_links: the
\* summary is generated and the row appended.
RaindropAppend(p) ==
    /\ script = "raindrop"
    /\ proc[p].pc = "loop"
    /\ proc[p].pos <= Len(proc[p].items)
    /\ CurrentItem(p).valid
    /\ CurrentItem(p).link \notin proc[p].existing_links
    /\ \E has_prompt \in PromptRows(proc[p].gpt), answers \in AnswersOf(proc[p].gpt) :
          LET g == generate_blog_style_summary(has_prompt, answers)
          IN  /\ sheet' = Append(sheet, [link |-> CurrentItem(p).link, by |-> p,
                                         summary |-> g.summary])
              /\ proc' = [proc EXCEPT ![p].pos = @ + 1,
                                      ![p].added = @ + 1,
                                      ![p].requests = g.requests,
                                      ![p].existing_links =
                                          links_after_append(@, CurrentItem(p).link)]
    /\ UNCHANGED race_rest

\* The loop is over (the run returns added), or append_row raised.
RaindropEnd(p) ==
    /\ script = "raindrop"
    /\ proc[p].pc = "loop"
    /\ proc' = [proc EXCEPT ![p].pc = IF proc[p].pos > Len(proc[p].items) THEN "done" ELSE "raised"]
    /\ UNCHANGED <<sheet, race_rest>>

NextRace ==
    \/ \E p \in DOMAIN proc : RunRead(p)
    \/ \E p \in DOMAIN proc : RunAppend(p)
    \/ \E p \in DOMAIN proc : RunUpdate(p)
    \/ \E p \in DOMAIN proc : RunFail(p)
    \/ \E p \in DOMAIN proc : RaindropBegin(p)
    \/ \E p \in DOMAIN proc : RaindropSkip(p)
    \/ \E p \in DOMAIN proc : RaindropAppend(p)
    \/ \E p \in DOMAIN proc : RaindropEnd(p)

SpecRace == InitRace /\ [][NextRace]_vars

(***************************************************************************)
(* clean_content on its own: the function applied to a text, and applied   *)
(* again to its own result.                                                *)
(***************************************************************************)

MaxText == 3

\* The characters of the texts: the two characters of the first label, the
\* separator, a space, a newline and a character of no label.
Alphabet == {"S", "R", ":", " ", "\n", "x"}

\* Longer texts: the other labels, and texts that information.py's pattern
\* matches.
SampleTexts ==
    { <<"K", "R", "-", "x">>,
      <<"I", "U", " ", "T", ":", " ", "x">>,
      <<"x", "\n", "M", "J", " ", "G", "H", " ", "x">>,
      <<"S", "R", "[", ":", "-", " ", "*", "x">>,
      <<"S", "R", "[", ":", "-", "]", "\n", "*", "S", "R", "[", ":", "-", " ", "*", "x">>,
      <<" ", "x", " ", "y", "\n">> }

\* The texts clean_content is applied to.
Texts == SeqsUpTo(Alphabet, MaxText) \cup SampleTexts

clean_rest == <<input_vars, run_count, todo, original, config, proc, sheet, runs, pc,
                regen_vars, aux, info_ws, total, error, focus>>

InitClean ==
    /\ script \in Scripts
    /\ original \in Texts
    /\ cleaned = <<>>
    /\ pc = "clean"
    /\ existing_texts = {}
    /\ etc_hints = {}
    /\ model_hints = {}
    /\ translate = TRUE
    /\ interval = 1
    /\ run_count = 0
    /\ todo = 0
    /\ CallEntry
    /\ aux = 0
    /\ info_ws = <<>>
    /\ total = 0
    /\ error = "none"
    /\ focus = FocusIdle
    /\ config = NoConfig
    /\ proc = <<>>
    /\ sheet = <<>>
    /\ runs = <<>>

\* clean_content(text)
CleanOnce ==
    /\ pc = "clean"
    /\ cleaned = <<>>
    /\ cleaned' = <<clean_content(script, original)>>
    /\ UNCHANGED clean_rest

\* clean_content(clean_content(text))
CleanAgain ==
    /\ pc = "clean"
    /\ Len(cleaned) = 1
    /\ cleaned' = Append(cleaned, clean_content(script, cleaned[1]))
    /\ UNCHANGED clean_rest

NextClean ==
    \/ CleanOnce
    \/ CleanAgain

SpecClean == InitClean /\ [][NextClean]_vars

(***************************************************************************)
(* One run of raindrop.py on its own.                                      *)
(***************************************************************************)

\* The sheet a run finds: empty, with one link, or with the same link twice.
StartSheets ==
    { <<>>,
      <<[link |-> "l1", by |-> 0, summary |-> "text"]>>,
      <<[link |-> "l1", by |-> 0, summary |-> "text"], [link |-> "l1", by |-> 0, summary |-> "text"]>> }

InitRaindrop ==
    /\ script = "raindrop"
    /\ interval = 0
    /\ run_count = 0
    /\ proc = [p \in {1} |-> IdleRaindrop]
    /\ runs = <<>>
    /\ cleaned = <<>>
    /\ info_ws = <<>>
    /\ sheet \in StartSheets
    /\ PipelineIdle

NextRaindrop ==
    \/ \E p \in DOMAIN proc : RaindropBegin(p)
    \/ \E p \in DOMAIN proc : RaindropSkip(p)
    \/ \E p \in DOMAIN proc : RaindropAppend(p)
    \/ \E p \in DOMAIN proc : RaindropEnd(p)

SpecRaindrop == InitRaindrop /\ [][NextRaindrop]_vars

(***************************************************************************)
(* The prompt sheet of information.py, marketing.py and nav.py: finding    *)
(* the run_count column, selecting the prompt row, reading run_count and   *)
(* writing it back.  Python indexes count from 0, sheet rows and columns   *)
(* from 1; row 1 of the sheet is the header.                               *)
(***************************************************************************)

MaxPromptRows == 2

\* The header rows of the prompt sheet: the column that marks a usable row,
\* and run_count absent, present, or present twice.
Headers ==
    { <<"use">>,
      <<"use", "run_count">>,
      <<"run_count", "use">>,
      <<"run_count", "use", "run_count">> }

\* The cells of a column with the given name.
CellsOf(name) == IF name = "use" THEN {"Y", "N"} ELSE {"", "0", "1"}

\* The data rows under a header.
RowsUnder(header) ==
    {r \in [1..Len(header) -> {"Y", "N", "", "0", "1"}] :
        \A c \in 1..Len(header) : r[c] \in CellsOf(header[c])}

\* The prompt sheets: a header and up to MaxPromptRows data rows.
PromptSheets ==
    UNION {{[header |-> h, rows |-> rs] : rs \in SeqsUpTo(RowsUnder(h), MaxPromptRows)} :
             h \in Headers}

\* {name: idx for idx, name in enumerate(header)}[name]: the last position
\* of the name, counted from 0.
col_map(header, name) ==
    (CHOOSE c \in 1..Len(header) :
        header[c] = name /\ \A d \in (c + 1)..Len(header) : header[d] # name) - 1

\* header.index(name): the first position of the name, counted from 0.
header_index(header, name) ==
    (CHOOSE c \in 1..Len(header) :
        header[c] = name /\ \A d \in 1..(c - 1) : header[d] # name) - 1

HasColumn(header, name) == \E c \in 1..Len(header) : header[c] = name

\* Variant of list_index that finds the last equal element.
list_index_last(rows, cfg) ==
    (CHOOSE k \in 1..Len(rows) :
        rows[k] = cfg /\ \A m \in (k + 1)..Len(rows) : rows[m] # cfg) - 1

\* all_prompts.index(cfg): the first equal element, counted from 0.
list_index(rows, cfg) ==
    (CHOOSE k \in 1..Len(rows) :
        rows[k] = cfg /\ \A m \in 1..(k - 1) : rows[m] # cfg) - 1

\* int(cell) if cell.isdigit() else 0
count_of(cell) == CASE cell = "1" -> 1 [] cell = "2" -> 2 [] cell = "3" -> 3 [] OTHER -> 0

\* str(new_count)
str_of(n) == CASE n = 0 -> "0" [] n = 1 -> "1" [] n = 2 -> "2" [] OTHER -> "3"

\* prompt_ws.add_cols(1); prompt_ws.update_cell(1, len(header) + 1, 'run_count'):
\* the sheet with the new column, its cells empty in every data row.
with_run_count_column(s) ==
    [header |-> Append(s.header, "run_count"),
     rows |-> [k \in 1..Len(s.rows) |-> Append(s.rows[k], "")]]

\* prompt_ws.update_cell(row, col, value) on a data row of the sheet.
update_cell(s, row, col, value) ==
    [s EXCEPT !.rows = [@ EXCEPT ![row - 1] = [@ EXCEPT ![col] = value]]]

\* The rows a script accepts as prompt configuration, as positions in
\* get_all_values()[1:] counted from 0.
Usable(s) == {k \in 0..(Len(s.rows) - 1) :
                 s.rows[k + 1][col_map(s.header, "use") + 1] = "Y"}

\* The locals of a run that has not opened the prompt sheet.
IdlePrompt == [pc |-> "idle", run_idx |-> 0, k |-> 0, cfg |-> <<>>, prev_count |-> 0,
               new_count |-> 0, read |-> <<0, 0>>, write |-> <<0, 0>>, created |-> FALSE]

InitPrompt ==
    /\ script \in RunCounting
    /\ interval \in 0..MaxInterval
    /\ run_count = 0
    /\ proc = [p \in {1} |-> IdlePrompt]
    /\ runs = <<>>
    /\ cleaned = <<>>
    /\ info_ws = <<>>
    /\ sheet \in PromptSheets
    /\ PipelineIdle

prompt_rest == <<script, interval, run_count, info_ws, pipeline_vars>>

\* The run reads the header and finds the run_count column; information.py
\* and nav.py add the column when the header lacks it.  run_idx counts from
\* 0 in information.py and marketing.py and from 1 in nav.py.
PromptOpen(p) ==
    /\ proc[p].pc = "idle"
    /\ LET header == sheet.header
           has == HasColumn(header, "run_count")
           creates == ~has /\ script \in {"information", "nav"}
           idx == CASE script = "information" ->
                         IF has THEN col_map(header, "run_count") ELSE Len(header)
                    [] script = "nav" ->
                         IF has THEN header_index(header, "run_count") + 1 ELSE Len(header) + 1
                    [] OTHER ->
                         IF has THEN col_map(header, "run_count") ELSE Len(header)
       IN  /\ sheet' = (IF creates THEN with_run_count_column(sheet) ELSE sheet)
           /\ proc' = [proc EXCEPT ![p].pc = "select", ![p].run_idx = idx,
                                   ![p].created = creates]
    /\ UNCHANGED <<runs, prompt_rest>>

\* The locals after the prompt row at position k (from 0) of the data rows
\* is taken as cfg: the cell prev_count is read from, as sheet row and
\* column, and the arguments update_cell will be called with.
selected(p, k, row_arg) ==
    LET cfg == sheet.rows[k + 1]
        py_col == IF script = "nav" THEN proc[p].run_idx - 1 ELSE proc[p].run_idx
        col_arg == IF script = "nav" THEN proc[p].run_idx ELSE proc[p].run_idx + 1
        prev == count_of(cfg[py_col + 1])
    IN  [proc[p] EXCEPT !.pc = "store", !.k = k, !.cfg = cfg,
                        !.prev_count = prev,
                        !.new_count = new_count(prev, interval),
                        !.read = <<k + 2, py_col + 1>>,
                        !.write = <<row_arg, col_arg>>]

\* The prompt row is selected and its run_count read.  information.py takes
\* the first usable row i of enumerate(prompts, start=2); marketing.py takes
\* matching_prompts[0] of the rows longer than run_idx and later looks it up
\* with all_prompts.index(cfg); nav.py goes through the rows with pr_idx.
PromptSelect(p) ==
    /\ proc[p].pc = "select"
    /\ CASE script = "information" ->
               IF Usable(sheet) = {}
               THEN proc' = [proc EXCEPT ![p].pc = "done"]
               ELSE LET k == CHOOSE x \in Usable(sheet) : \A y \in Usable(sheet) : x <= y
                        matched_idx == k + 2
                    IN  proc' = [proc EXCEPT ![p] = selected(p, matched_idx - 2, matched_idx)]
         [] script = "marketing" ->
               LET matching == {x \in Usable(sheet) : Len(sheet.rows[x + 1]) > proc[p].run_idx}
               IN  IF matching = {}
                   THEN proc' = [proc EXCEPT ![p].pc = "raised"]
                   ELSE LET k == CHOOSE x \in matching : \A y \in matching : x <= y
                        IN  proc' = [proc EXCEPT ![p] =
                                        selected(p, k, list_index(sheet.rows, sheet.rows[k + 1]) + 2)]
         [] OTHER ->
               LET k == proc[p].k
               IN  IF k >= Len(sheet.rows)
                   THEN proc' = [proc EXCEPT ![p].pc = "done"]
                   ELSE IF k \notin Usable(sheet)
                        THEN proc' = [proc EXCEPT ![p].k = k + 1]
                        ELSE proc' = [proc EXCEPT ![p] = selected(p, k, k + 2)]
    /\ UNCHANGED <<sheet, runs, prompt_rest>>

\* The post is stored and prompt_ws.update_cell writes str(new_count); nav.py
\* goes on with the next prompt row.
PromptStore(p) ==
    /\ proc[p].pc = "store"
    /\ sheet' = update_cell(sheet, proc[p].write[1], proc[p].write[2], str_of(proc[p].new_count))
    /\ runs' = Append(runs, [read |-> proc[p].read, write |-> proc[p].write,
                             cfg |-> proc[p].cfg, value |-> str_of(proc[p].new_count)])
    /\ proc' = [proc EXCEPT ![p].pc = IF script = "nav" THEN "select" ELSE "done",
                            ![p].k = IF script = "nav" THEN @ + 1 ELSE @]
    /\ UNCHANGED prompt_rest

\* A request or the append of the item fails: the run ends, nothing is written.
PromptRaise(p) ==
    /\ proc[p].pc = "store"
    /\ proc' = [proc EXCEPT ![p].pc = "raised"]
    /\ UNCHANGED <<sheet, runs, prompt_rest>>

NextPrompt ==
    \/ \E p \in DOMAIN proc : PromptOpen(p)
    \/ \E p \in DOMAIN proc : PromptSelect(p)
    \/ \E p \in DOMAIN proc : PromptStore(p)
    \/ \E p \in DOMAIN proc : PromptRaise(p)

SpecPrompt == InitPrompt /\ [][NextPrompt]_vars

(***************************************************************************)
(* process_regeneration as a loop over source rows: which rows are         *)
(* skipped, how many posts a row gets and with which model, what is        *)
(* appended and what the function returns.  The generation of one post     *)
(* (rewrite, title, tags, translations) is one step here.                  *)
(***************************************************************************)

MaxRows == 2

\* Scripts whose process_regeneration loops over rows and returns a count.
BatchScripts == {"information", "nav", "publi_ad", "publi_sup", "publi_xls", "xls"}

\* Scripts that return len(selected).
ReturnsSelected == {"publi_ad", "publi_xls", "xls"}

\* A row the outer loop goes through (in nav.py a prompt row with its chosen
\* item): whether the body is non-empty and whether a prompt matches it.
SourceRows == [body : BOOLEAN, prompt : BOOLEAN]

\* The locals of a run that has not read its sheets.
IdleBatch == [pc |-> "idle", rows |-> <<>>, has_prompt |-> TRUE, hybrid |-> FALSE,
              r |-> 1, posts |-> <<>>, j |-> 1, total |-> 0, result |-> 0]

\* min(count, len(rows))
Min(a, b) == IF a < b THEN a ELSE b

\* The models of the posts generated for one row of the outer loop.
\* publi_sup.py: enumerate(selected_rows, start=1) over a sample of
\* min(count, len(rows)) rows, advanced when hybrid and idx == count.
\* publi_ad.py: [basic_model] * gap + [adv_model] when hybrid, else one basic.
\* nav.py and information.py: the model chosen from run_count.
\* xls.py and publi_xls.py: one post with the configured model.
posts_of(s, hybrid, n, prev_count, nrows) ==
    CASE s = "publi_sup" ->
            LET count == IF hybrid THEN n + 1 ELSE n
            IN  [idx \in 1..Min(count, nrows) |->
                    IF hybrid /\ idx = count THEN "advanced" ELSE "basic"]
      [] s = "publi_ad" ->
            IF hybrid THEN [idx \in 1..(n + 1) |-> IF idx = n + 1 THEN "advanced" ELSE "basic"]
            ELSE <<"basic">>
      [] s \in {"nav", "information"} -> <<use_model_of(prev_count, n)>>
      [] OTHER -> <<"basic">>

\* The row is passed over by the loop (continue).
skipped(s, row) ==
    CASE s \in {"publi_sup", "publi_ad", "nav"} -> ~row.prompt
      [] s \in {"xls", "publi_xls"} -> ~row.body
      [] OTHER -> FALSE

\* Variant of returned_count in which every script returns its counter.
returned_count_total(s, picked, counted) == counted

\* What process_regeneration returns at the end of its loop.
returned_count(s, picked, counted) == IF s \in ReturnsSelected THEN Len(picked) ELSE counted

InitBatch ==
    /\ script \in BatchScripts
    /\ interval \in 0..MaxInterval
    /\ run_count \in 0..MaxInterval
    /\ proc = [p \in {1} |-> IdleBatch]
    /\ runs = <<>>
    /\ cleaned = <<>>
    /\ info_ws = <<>>
    /\ sheet = <<>>
    /\ PipelineIdle

batch_rest == <<script, interval, run_count, runs, sheet, pipeline_vars>>

\* The sheets are read.  xls.py, publi_xls.py and publi_ad.py return 0 when
\* nothing is selected, xls.py and publi_xls.py also without a usable prompt;
\* information.py returns 0 without rows or without a matching prompt row.
BatchBegin(p) ==
    /\ proc[p].pc = "idle"
    /\ \E rows \in SeqsUpTo(SourceRows, MaxRows), has_prompt \in BOOLEAN, hybrid \in BOOLEAN :
          LET early == \/ script \in ReturnsSelected /\ rows = <<>>
                       \/ script \in {"xls", "publi_xls", "information"} /\ ~has_prompt
                       \/ script = "information" /\ rows = <<>>
          IN  proc' = [proc EXCEPT ![p] =
                          [IdleBatch EXCEPT !.pc = IF early THEN "done" ELSE "row",
                                            !.rows = rows,
                                            !.has_prompt = has_prompt,
                                            !.hybrid = hybrid]]
    /\ UNCHANGED <<info_ws, batch_rest>>

\* The outer loop reaches its next row, or ends and the function returns.
\* information.py processes one item only.
BatchRow(p) ==
    /\ proc[p].pc = "row"
    /\ LET l == proc[p]
           over == l.r > Len(l.rows) \/ (script = "information" /\ l.r > 1)
       IN  IF over
           THEN proc' = [proc EXCEPT ![p].pc = "done",
                                     ![p].result = returned_count(script, l.rows, l.total)]
           ELSE IF skipped(script, l.rows[l.r])
                THEN proc' = [proc EXCEPT ![p].r = @ + 1]
                ELSE LET posts == posts_of(script, l.hybrid, interval, run_count, Len(l.rows))
                     IN  IF posts = <<>>
                         THEN proc' = [proc EXCEPT ![p].r = @ + 1, ![p].posts = posts]
                         ELSE proc' = [proc EXCEPT ![p].pc = "post", ![p].posts = posts,
                                                   ![p].j = 1]
    /\ UNCHANGED <<info_ws, batch_rest>>

\* The locals after a post of the inner loop is dealt with.
after_post(l, stored) ==
    LET counted == IF stored /\ script \in {"nav", "publi_sup", "information"}
                   THEN l.total + 1 ELSE l.total
    IN  IF l.j = Len(l.posts)
        THEN [l EXCEPT !.pc = "row", !.r = @ + 1, !.j = 1, !.total = counted]
        ELSE [l EXCEPT !.j = @ + 1, !.total = counted]

\* A post is generated and its row appended.
BatchPost(p) ==
    /\ proc[p].pc = "post"
    /\ info_ws' = Append(info_ws, [model |-> proc[p].posts[proc[p].j], by |-> proc[p].r])
    /\ proc' = [proc EXCEPT ![p] = after_post(proc[p], TRUE)]
    /\ UNCHANGED batch_rest

\* append_row raises: xls.py and publi_xls.py log the error and go on, the
\* other scripts end with the exception.
BatchAppendFail(p) ==
    /\ proc[p].pc = "post"
    /\ proc' = [proc EXCEPT ![p] = IF script \in CatchesAppend
                                   THEN after_post(proc[p], FALSE)
                                   ELSE [proc[p] EXCEPT !.pc = "raised"]]
    /\ UNCHANGED <<info_ws, batch_rest>>

\* A request of the post fails.
BatchRaise(p) ==
    /\ proc[p].pc = "post"
    /\ proc' = [proc EXCEPT ![p].pc = "raised"]
    /\ UNCHANGED <<info_ws, batch_rest>>

NextBatch ==
    \/ \E p \in DOMAIN proc : BatchBegin(p)
    \/ \E p \in DOMAIN proc : BatchRow(p)
    \/ \E p \in DOMAIN proc : BatchPost(p)
    \/ \E p \in DOMAIN proc : BatchAppendFail(p)
    \/ \E p \in DOMAIN proc : BatchRaise(p)

SpecBatch == InitBatch /\ [][NextBatch]_vars

(***************************************************************************)
(* Properties of regenerate_unique_post (specification Spec)               *)
(***************************************************************************)

\* The similarity of the candidate of the latest answered request.
LastSim == similarity_of(lastreq.cand, existing_texts)

\* C1 as stated: whenever regenerate_unique_post has returned, the attempt
\* count is in 1..MAX_RETRIES and the text is the cleaned candidate of the
\* request made on the attempt with that number.
C1_AttemptsWithinMaxRetries ==
    pc = "returned" =>
        /\ ret.tries \in 1..MAX_RETRIES
        /\ lastreq.attempt = ret.tries
        /\ lastreq.ok
        /\ ret.text = lastreq.cand

\* C1 amended: the attempt count is in 1..MAX_RETRIES, in marketing.py in
\* 1..2*MAX_RETRIES; it is the number of the attempt of the latest request;
\* the text is the cleaned candidate of that request whenever that request
\* was answered, which outside marketing.py it always was.
C1_AttemptsWithinBudget ==
    pc = "returned" =>
        /\ ret.tries \in 1..(IF script = "marketing" THEN 2 * MAX_RETRIES ELSE MAX_RETRIES)
        /\ lastreq.attempt = ret.tries
        /\ script # "marketing" => lastreq.ok
        /\ lastreq.ok => ret.text = lastreq.cand

\* C1 witness: marketing.py returns the candidate of an attempt of its second loop.
C1_Witness ==
    /\ pc = "returned"
    /\ script = "marketing"
    /\ ret.tries = MAX_RETRIES + 2
    /\ lastreq.ok
    /\ ret.text = lastreq.cand

\* C2: with an empty corpus, once the first request has been answered the
\* call has returned with attempt count 1 and score 0 and nothing was raised.
C2_EmptyCorpusAccepted ==
    (existing_texts = {} /\ requests = 1 /\ lastreq.ok) =>
        /\ pc = "returned"
        /\ error = "none"
        /\ ret.tries = 1
        /\ ret.score = <<0, 1>>

\* C3: a return before the last attempt happens only with a similarity
\* strictly below the script's module constant SIMILARITY_THRESHOLD, after
\* exactly as many requests as the attempt count, and no iteration goes on
\* with a candidate below that constant.
C3_ReturnsBelowModuleThreshold ==
    /\ (pc = "returned" /\ ret.tries < MAX_RETRIES) =>
           /\ Less(ret.score, SIMILARITY_THRESHOLD(script))
           /\ requests = ret.tries
    /\ (pc = "request" /\ regen_at > 0) => ~Less(score, SIMILARITY_THRESHOLD(script))

\* All MAX_RETRIES attempts of the first loop produced a candidate and none
\* was accepted.
FirstLoopRejected ==
    /\ evaluated = MAX_RETRIES
    /\ lastreq.attempt = MAX_RETRIES
    /\ lastreq.ok
    /\ ~accepts(script, 1, LastSim)

\* C4 as stated: when every one of the MAX_RETRIES attempts yields a
\* similarity at or above the threshold, the call returns the candidate and
\* score of the MAX_RETRIES-th attempt with attempt count MAX_RETRIES.
C4_ReturnsLastOfMaxRetries ==
    FirstLoopRejected =>
        /\ pc = "returned"
        /\ ret = [text |-> lastreq.cand, score |-> LastSim, tries |-> MAX_RETRIES]

\* C4 amended: that holds in every script but marketing.py; marketing.py
\* then runs its second loop, and when all 2*MAX_RETRIES attempts yield a
\* similarity at or above their threshold it returns the candidate and score
\* of the last attempt with attempt count 2*MAX_RETRIES.
C4_ReturnsLastOfBudget ==
    /\ (script # "marketing" /\ FirstLoopRejected) =>
           /\ pc = "returned"
           /\ ret = [text |-> lastreq.cand, score |-> LastSim, tries |-> MAX_RETRIES]
    /\ (script = "marketing" /\ FirstLoopRejected) => (pc = "request" /\ phase = 2 /\ i = 1)
    /\ (/\ script = "marketing"
        /\ evaluated = 2 * MAX_RETRIES
        /\ lastreq.ok
        /\ ~accepts(script, 2, LastSim)) =>
           /\ pc = "returned"
           /\ ret = [text |-> lastreq.cand, score |-> LastSim, tries |-> 2 * MAX_RETRIES]

\* C4 witness: the last candidate is returned although an earlier one scored lower.
C4_Witness ==
    /\ pc = "returned"
    /\ script = "nav"
    /\ FirstLoopRejected
    /\ ret.tries = MAX_RETRIES
    /\ Less(best, ret.score)

\* The candidate of the latest answered request is identical to a corpus text.
LastIdentical == lastreq.ok /\ evaluated > 0 /\ lastreq.cand \in existing_texts

\* A candidate identical to a corpus text has similarity 1.0, is not
\* accepted, and before the last attempt another request follows.
IdenticalRejected ==
    LastIdentical =>
        /\ LastSim = <<1, 1>>
        /\ ~(pc = "returned" /\ ret.tries = lastreq.attempt /\ ret.tries < exhausted_tries(script))
        /\ lastreq.attempt < exhausted_tries(script) => (pc = "request" /\ AttemptNo = lastreq.attempt + 1)

\* C5 as stated: IdenticalRejected, and the call returns a candidate that is
\* identical to a corpus text only if it is the candidate of the final attempt.
C5_IdenticalOnlyFromFinalAttempt ==
    /\ IdenticalRejected
    /\ (pc = "returned" /\ regen_at > 0 /\ ret.text = regen /\ ret.text \in existing_texts) =>
           regen_at = exhausted_tries(script)

\* C5 amended: IdenticalRejected, and the call returns a candidate that is
\* identical to a corpus text only when the budget is exhausted; it is the
\* candidate of the final attempt unless (marketing.py only) the requests of
\* all later attempts failed.
C5_IdenticalOnlyOnExhaustion ==
    /\ IdenticalRejected
    /\ (pc = "returned" /\ regen_at > 0 /\ ret.text = regen /\ ret.text \in existing_texts) =>
           /\ ret.tries = exhausted_tries(script)
           /\ script # "marketing" => regen_at = ret.tries
           /\ regen_at # ret.tries => (~lastreq.ok /\ lastreq.attempt = ret.tries)

\* C5 witness: an identical candidate of an earlier attempt was rejected and
\* the loop is about to make the next request.
C5_Witness ==
    /\ LastIdentical
    /\ lastreq.attempt = 2
    /\ pc = "request"
    /\ score = <<1, 1>>

\* C6: the max_tokens of a rewrite request is 2000 when the last style field
\* contains the 2000 hint alone, 2500 when it contains the 2500 hint alone,
\* and 3000 when it contains neither.
C6_MaxTokensFromStyleField ==
    max_tokens # 0 =>
        /\ (H2000 \in etc_hints /\ H2500 \notin etc_hints /\ H3000 \notin etc_hints) => max_tokens = 2000
        /\ (H2500 \in etc_hints /\ H2000 \notin etc_hints /\ H3000 \notin etc_hints) => max_tokens = 2500
        /\ (H2000 \notin etc_hints /\ H2500 \notin etc_hints) => max_tokens = 3000

\* A step in which a rewrite request fails.
RewriteRequestFails == requests' = requests + 1 /\ ~lastreq'.ok

\* C9: in nav.py, publi_sup.py, xls.py and publi_xls.py a failing rewrite
\* request ends the run with that error, without a row appended or a
\* run_count written, and nothing happens after it.
C9_ErrorPropagates ==
    /\ [][(script \in Propagating /\ RewriteRequestFails) =>
             /\ pc' = "raised"
             /\ error' = "RewriteError"
             /\ info_ws' = info_ws
             /\ run_count' = run_count
             /\ total' = total]_vars
    /\ [][(script \in Propagating /\ error = "RewriteError") => UNCHANGED vars]_vars

\* C9 witness: nav.py's run has ended with the error of its third attempt.
C9_Witness ==
    /\ script = "nav"
    /\ pc = "raised"
    /\ error = "RewriteError"
    /\ lastreq.attempt = 3
    /\ requests = 3

\* C10: in marketing.py a failing rewrite request is skipped: regen and
\* score are kept, nothing is raised, and the loop goes on with the next
\* attempt or returns after the last one; the call makes at most
\* 2*MAX_RETRIES requests.
C10_MarketingSkipsFailedAttempt ==
    /\ [](script = "marketing" => (error # "RewriteError" /\ requests <= 2 * MAX_RETRIES))
    /\ [][(script = "marketing" /\ RewriteRequestFails) =>
             /\ regen' = regen
             /\ score' = score
             /\ evaluated' = evaluated
             /\ error' = error
             /\ \/ pc' = "request" /\ AttemptNo' = AttemptNo + 1
                \/ /\ AttemptNo = 2 * MAX_RETRIES
                   /\ pc' = "returned"
                   /\ ret' = [text |-> regen, score |-> score, tries |-> 2 * MAX_RETRIES]]_vars

\* C10 witness: marketing.py has returned after 2*MAX_RETRIES requests, the
\* last of which failed.
C10_Witness ==
    /\ script = "marketing"
    /\ pc = "returned"
    /\ requests = 2 * MAX_RETRIES
    /\ ~lastreq.ok
    /\ error = "none"

\* C11: in publi_ad.py a rewrite request that fails with InvalidRequestError
\* is repeated once for the same attempt, the answer of the repeated request
\* is the candidate of that attempt, and the attempt counter does not move;
\* a request failing with another error, and a failing repeated request, end
\* the call with the error.
C11_FallbackOnceSameAttempt ==
    /\ [][(script = "publi_ad" /\ pc = "request" /\ RewriteRequestFails) =>
             IF lastreq'.err = "InvalidRequestError"
             THEN /\ pc' = "fallback"
                  /\ <<phase, i, regen, score, evaluated, ret, error>>'
                        = <<phase, i, regen, score, evaluated, ret, error>>
             ELSE /\ pc' = "raised"
                  /\ error' = "RewriteError"]_vars
    /\ [][(script = "publi_ad" /\ pc = "fallback") =>
             /\ requests' = requests + 1
             /\ lastreq'.attempt = lastreq.attempt
             /\ lastreq'.attempt = i
             /\ max_tokens' = max_tokens
             /\ IF lastreq'.ok
                THEN /\ evaluated' = evaluated + 1
                     /\ lastreq'.cand \in {clean_content(script, raw) : raw \in Responses}
                     /\ \/ pc' = "returned" /\ ret'.tries = i /\ ret'.text = lastreq'.cand
                        \/ pc' = "request" /\ i' = i + 1 /\ regen' = lastreq'.cand
                        \/ /\ i = MAX_RETRIES
                           /\ pc' = "returned"
                           /\ ret'.tries = MAX_RETRIES
                           /\ ret'.text = lastreq'.cand
                ELSE /\ pc' = "raised"
                     /\ error' = "RewriteError"]_vars
    /\ [][(script = "publi_ad" /\ error = "RewriteError") => UNCHANGED vars]_vars

\* C11 witness: publi_ad.py has returned the answer of the repeated request
\* of its second attempt, after three requests.
C11_Witness ==
    /\ script = "publi_ad"
    /\ pc = "returned"
    /\ ret.tries = 2
    /\ requests = 3
    /\ lastreq.ok
    /\ ret.text = lastreq.cand

\* A step in which a rewrite request is answered.
RewriteRequestAnswered == requests' = requests + 1 /\ lastreq'.ok

\* C12: marketing.py enters its second loop only after MAX_RETRIES requests
\* of the first loop none of which gave a similarity below 0.6; the second
\* loop makes at most MAX_RETRIES further requests, returns at the first
\* answer with a similarity strictly below 0.7 with attempt count
\* MAX_RETRIES + i, and otherwise returns the latest candidate with attempt
\* count 2*MAX_RETRIES; a return from the first loop has a similarity below 0.6.
C12_RelaxedPhase ==
    /\ [](script = "marketing" =>
            /\ phase = 2 => (requests >= MAX_RETRIES /\ requests <= 2 * MAX_RETRIES)
            /\ (phase = 2 /\ pc = "request") => requests = MAX_RETRIES + i - 1
            /\ (phase = 2 /\ best # NoScore /\ requests = MAX_RETRIES) => ~Less(best, <<3, 5>>)
            /\ (pc = "returned" /\ ret.tries <= MAX_RETRIES) =>
                   (phase = 1 /\ Less(ret.score, <<3, 5>>))
            /\ (pc = "returned" /\ ret.tries > MAX_RETRIES) => phase = 2
            /\ (pc = "returned" /\ ret.tries > MAX_RETRIES /\ ret.tries < 2 * MAX_RETRIES) =>
                   /\ Less(ret.score, <<7, 10>>)
                   /\ lastreq.ok
                   /\ ret.text = lastreq.cand
                   /\ ret.tries = MAX_RETRIES + i
            /\ (pc = "returned" /\ ret.tries = 2 * MAX_RETRIES) =>
                   /\ requests = 2 * MAX_RETRIES
                   /\ \/ lastreq.ok /\ Less(ret.score, <<7, 10>>) /\ ret.text = lastreq.cand
                      \/ ret.text = regen /\ ret.score = score /\ ~Less(score, <<3, 5>>))
    /\ [][(script = "marketing" /\ phase = 1 /\ phase' = 2) =>
             /\ i = MAX_RETRIES
             /\ requests' = MAX_RETRIES
             /\ i' = 1]_vars
    /\ [][(script = "marketing" /\ phase = 2 /\ RewriteRequestAnswered /\ error' = "none") =>
             LET sim == similarity_of(lastreq'.cand, existing_texts)
             IN  IF Less(sim, <<7, 10>>)
                 THEN /\ pc' = "returned"
                      /\ ret' = [text |-> lastreq'.cand, score |-> sim, tries |-> MAX_RETRIES + i]
                 ELSE /\ regen' = lastreq'.cand
                      /\ score' = sim
                      /\ IF i < MAX_RETRIES
                         THEN pc' = "request" /\ i' = i + 1
                         ELSE /\ pc' = "returned"
                              /\ ret' = [text |-> lastreq'.cand, score |-> sim,
                                         tries |-> 2 * MAX_RETRIES]]_vars

\* C12 witness: marketing.py has returned from the second attempt of its
\* second loop a candidate with a similarity of 0.6.
C12_Witness ==
    /\ script = "marketing"
    /\ pc = "returned"
    /\ ret.tries = MAX_RETRIES + 2
    /\ ret.score = <<3, 5>>
    /\ requests = MAX_RETRIES + 2

\* A step in which regenerate_unique_post returns without accepting the
\* candidate of its latest request.
ExhaustedReturn ==
    /\ pc # "returned"
    /\ pc' = "returned"
    /\ ~(lastreq'.ok /\ accepts(script, phase, similarity_of(lastreq'.cand, existing_texts)))

\* C13: a call that ends without an accepted candidate returns normally
\* with a score at or above the threshold; after a return the caller goes on
\* to the title request, and the only row it appends for the call carries the
\* returned text and its score.
C13_ExhaustionStillStored ==
    /\ [][ExhaustedReturn =>
             /\ error' = "none"
             /\ ret'.tries = exhausted_tries(script)
             /\ ret'.text = regen'
             /\ ~Less(ret'.score, loop_threshold(script, 1))
             /\ ~Less(ret'.score, SIMILARITY_THRESHOLD(script))]_vars
    /\ [][pc = "returned" => (pc' = "aux" /\ aux' >= 1 /\ ret' = ret /\ error' = "none")]_vars
    /\ [][(pc = "aux" /\ pc' \notin {"aux", "aux_fallback"}) =>
             \/ pc' = "append" /\ aux = 1 /\ ret' = ret
             \/ pc' = "raised"]_vars
    /\ [][info_ws' # info_ws =>
             /\ pc = "append"
             /\ pc' # "append"
             /\ info_ws' = Append(info_ws, [content |-> ret.text, score |-> format_score(ret.score)])]_vars

\* C13 witness: xls.py has stored the row of a call that used up its
\* MAX_RETRIES attempts, with a score of at least 0.60.
C13_Witness ==
    /\ script = "xls"
    /\ pc = "finished"
    /\ ret.tries = MAX_RETRIES
    /\ ~Less(ret.score, SIMILARITY_THRESHOLD(script))
    /\ info_ws = <<[content |-> ret.text, score |-> format_score(ret.score)]>>
    /\ info_ws[1].score >= 60

\* C15: regenerate_unique_post is never running, or returned, for an item
\* whose body is empty.
C15_NeverCalledWithEmptyOriginal ==
    pc \in {"request", "fallback", "returned"} => original # <<>>

\* The texts the target sheet holds.
TargetTexts == {info_ws[k].content : k \in 1..Len(info_ws)}

\* C16: the corpus of a call holds only texts already written to the target sheet.
C16_CorpusIsAcceptedOutputs ==
    pc \in {"request", "fallback", "returned"} => existing_texts \subseteq TargetTexts

\* regenerate_unique_post has returned without accepting the candidate of
\* its latest request: the budget is exhausted.
ReturnedExhausted ==
    /\ pc = "returned"
    /\ ~(lastreq.ok /\ accepts(script, phase, LastSim))

\* C18 as stated: when the budget is exhausted the returned score is the
\* lowest of the similarities of all candidates of the call.
C18_ReturnsBestAttempt ==
    (ReturnedExhausted /\ best # NoScore) => ret.score = best

\* C18 amended: when the budget is exhausted the call returns the latest
\* candidate it generated, with that candidate's similarity (the original
\* text with 1.0 when marketing.py generated none); an earlier candidate
\* may have scored lower.
C18_ExhaustionReturnsLatest ==
    /\ [](ReturnedExhausted =>
            /\ ret.text = regen
            /\ ret.score = score
            /\ ret.tries = exhausted_tries(script)
            /\ lastreq.ok =>
                  /\ ret.text = lastreq.cand
                  /\ ret.score = LastSim
                  /\ regen_at = lastreq.attempt
            /\ ~lastreq.ok => script = "marketing"
            /\ evaluated = 0 => (ret.text = original /\ ret.score = <<1, 1>>)
            /\ best # NoScore => ~Less(ret.score, best))
    /\ [][(RewriteRequestAnswered /\ pc' = "request" /\ error' = "none") =>
             /\ regen' = lastreq'.cand
             /\ score' = similarity_of(lastreq'.cand, existing_texts)
             /\ regen_at' = lastreq'.attempt]_vars
    /\ [][(RewriteRequestFails /\ pc' \in {"request", "returned"}) =>
             (regen' = regen /\ score' = score /\ regen_at' = regen_at)]_vars

\* C18 witness: xls.py has returned the candidate of its last attempt
\* although an earlier candidate scored lower.
C18_Witness ==
    /\ script = "xls"
    /\ ReturnedExhausted
    /\ ret.tries = MAX_RETRIES
    /\ ret.text = lastreq.cand
    /\ Less(best, ret.score)

(***************************************************************************)
(* Properties of successive runs (specification SpecRuns)                  *)
(***************************************************************************)

\* C14: a run that reads run_count c with interval N uses the basic model
\* and stores c + 1 when c < N, and uses the advanced model and stores 0
\* otherwise; each run reads what the previous one stored; and when the
\* first run read 0, the k-th successful run uses the advanced model exactly
\* when k is a multiple of N + 1, and the stored run_count stays in 0..N.
C14_ModelAlternatesByInterval ==
    /\ \A k \in 1..Len(runs) :
          /\ runs[k].count < interval =>
                (runs[k].model = "basic" /\ runs[k].stored = runs[k].count + 1)
          /\ runs[k].count >= interval =>
                (runs[k].model = "advanced" /\ runs[k].stored = 0)
          /\ k > 1 => runs[k].count = runs[k - 1].stored
    /\ Len(runs) > 0 => run_count = runs[Len(runs)].stored
    /\ (Len(runs) > 0 /\ runs[1].count = 0) =>
          /\ \A k \in 1..Len(runs) :
                /\ runs[k].model = "advanced" <=> k % (interval + 1) = 0
                /\ runs[k].stored \in 0..interval
          /\ run_count \in 0..interval

\* C14 witness: with interval 2, six successful runs from run_count 0, the
\* third and the sixth with the advanced model.
C14_Witness ==
    /\ interval = 2
    /\ Len(runs) = 6
    /\ runs[1].count = 0
    /\ runs[3].model = "advanced"
    /\ runs[4].model = "basic"
    /\ runs[6].model = "advanced"
    /\ run_count = 0

(***************************************************************************)
(* Properties of the start of a script (specification SpecStartup)         *)
(***************************************************************************)

\* The configuration has an error: no usable service-account JSON, no API
\* key (image.py needs none), or in information.py a missing required column.
BadConfig ==
    \/ config.json # "valid"
    \/ ~config.api_key /\ script # "image"
    \/ script = "information" /\ ~config.columns

\* C17: with an error in the configuration the script never gets to its
\* work: one of its steps raises, and no generation request is sent, no row
\* (not even a header row) is appended and no cell is updated; and a script
\* ends with a configuration error only when there is one.
C17_ConfigErrorsFatalFirst ==
    /\ BadConfig =>
          /\ pc \in {"startup", "raised"}
          /\ pc = "startup" => config.step <= Len(StartupSteps(script))
          /\ requests = 0
          /\ run_count = 0
          /\ sheet = <<>>
          /\ info_ws \in {<<>>, <<PriorRow>>}
    /\ error = "ConfigError" => (BadConfig /\ pc = "raised")
    /\ pc \in {"working", "finished"} => ~BadConfig

\* C17 witness: information.py has raised at its last step, the check of
\* the prompt sheet's columns, with everything else in order.
C17_Witness ==
    /\ script = "information"
    /\ config.json = "valid"
    /\ config.api_key
    /\ ~config.columns
    /\ config.step = Len(StartupSteps(script))
    /\ pc = "raised"
    /\ error = "ConfigError"
    /\ requests = 0

\* An auxiliary operation (regenerate_title, extract_tags, translate_text)
\* is waiting for the answer to a request.
AuxRequestPending == pc \in {"aux", "aux_fallback"}

\* The request is answered: the operation returns and the caller goes on.
AuxReturns == aux' = aux - 1 /\ pc' \in {"aux", "append"} /\ error' = error

\* The request fails and the error leaves the operation and its caller.
AuxPropagates == pc' = "raised" /\ error' = "AuxError" /\ aux' = aux

\* C22 as stated: in every script an auxiliary operation makes one request;
\* the answer ends the operation and an error is propagated, never followed
\* by another request.
C22_AuxSingleShot == [][AuxRequestPending => (AuxReturns \/ AuxPropagates)]_vars

\* C22 amended: as C22_AuxSingleShot, except that in information.py the first
\* request of an operation may be followed by one repeated request; the
\* repeated request is never repeated again.
C22_AuxSingleShotButInformation ==
    [][AuxRequestPending =>
          \/ AuxReturns
          \/ AuxPropagates
          \/ /\ script = "information"
             /\ pc = "aux"
             /\ pc' = "aux_fallback"
             /\ aux' = aux
             /\ error' = error]_vars

\* C22 witness: information.py is about to repeat the request of an auxiliary
\* operation after the first one failed.
C22_Witness == script = "information" /\ pc = "aux_fallback" /\ aux >= 1 /\ error = "none"

\* A step of a run of information.py, marketing.py or nav.py: the append
\* follows the last auxiliary answer, the row is whole, the update follows
\* the append, and a step that raises writes nothing.
RowThenCountOrNothing ==
    script \in RunCounting =>
        /\ pc' = "append" => (pc \in {"aux", "aux_fallback"} /\ aux = 1 /\ aux' = 0)
        /\ info_ws' # info_ws =>
              (pc = "append" /\ aux = 0 /\ info_ws' = Append(info_ws, target_row(ret)))
        /\ pc' = "update" => (pc = "append" /\ info_ws' # info_ws)
        /\ run_count' # run_count => pc = "update"
        /\ pc' = "raised" => (info_ws' = info_ws /\ run_count' = run_count)

\* C25: in information.py, marketing.py and nav.py the row of an item is
\* appended, whole, only once the rewrite has returned and the last of the
\* title and translation requests is answered; run_count is written only in
\* the update that follows the append; and a step that ends the run with an
\* error writes neither a row nor a run_count.
C25_RowThenCountOrNothing == [][RowThenCountOrNothing]_vars

\* C25 witness: a run of information.py that stored a post has ended: its
\* row is in the target sheet and the update of run_count came last.
C25_Witness ==
    /\ script = "information"
    /\ pc = "finished"
    /\ total = 1
    /\ Len(info_ws) >= 1
    /\ info_ws[Len(info_ws)] = target_row(ret)

\* The rows of the target sheet that this run appended.
AppendedRows == {k \in 1..Len(info_ws) : info_ws[k] # PriorRow}

\* C28 as stated: a run of marketing.py that found a valid source row and a
\* matching prompt row ends in an error only when a service request or a
\* sheet write failed (also when the item is the only valid row and the
\* corpus is empty), and a run that ends without error has appended exactly
\* one row.
C28_MarketingStoresOne ==
    script = "marketing" =>
        /\ pc = "raised" => error \in {"RewriteError", "AuxError", "AppendError", "UpdateError"}
        /\ pc = "finished" => Cardinality(AppendedRows) = 1

\* marketing.py has ended with the ValueError of an empty corpus after its
\* first request was answered; nothing was appended.
MarketingSingleRowFails ==
    /\ script = "marketing"
    /\ existing_texts = {}
    /\ pc = "raised"
    /\ error = "ValueError"
    /\ requests = 1
    /\ lastreq.ok
    /\ AppendedRows = {}

(***************************************************************************)
(* Properties of two concurrent runs (specification SpecRace)              *)
(***************************************************************************)

\* Two rows of the raindrop sheet, appended by the two runs, hold the same
\* bookmark link.
C19_RaindropDuplicate ==
    \E a, b \in 1..Len(sheet) :
        /\ a < b
        /\ sheet[a].link = sheet[b].link
        /\ {sheet[a].by, sheet[b].by} = {1, 2}

\* Both runs read the same run_count, both appended their row and both
\* stored the same successor: the sheet holds one step where two runs in
\* sequence would have stored two.
C19_LostIncrement ==
    /\ Len(runs) = 2
    /\ Len(info_ws) = 2
    /\ runs[1].by # runs[2].by
    /\ runs[1].count = runs[2].count
    /\ runs[1].stored = runs[2].stored
    /\ run_count = new_count(runs[1].count, interval)
    /\ run_count # new_count(new_count(runs[1].count, interval), interval)

\* C19: two concurrent runs of one script work from the snapshot each read
\* at its start. In raindrop.py a run appends only links absent from its own
\* snapshot and never the same link twice, so two rows with one link come
\* from the two runs; in information.py/nav.py every run stores the successor
\* of the run_count it read itself, whatever the other run has stored since,
\* so two runs that read the same count store the same successor.
C19_RunsRaceOnSnapshot ==
    /\ \A k \in 1..Len(sheet) :
          sheet[k].by \in DOMAIN proc => sheet[k].link \notin proc[sheet[k].by].snapshot
    /\ \A a, b \in 1..Len(sheet) :
          (a < b /\ sheet[a].link = sheet[b].link) => sheet[a].by # sheet[b].by
    /\ \A k \in 1..Len(runs) :
          runs[k].stored = (IF runs[k].count < interval THEN runs[k].count + 1 ELSE 0)
    /\ \A a, b \in 1..Len(runs) :
          runs[a].count = runs[b].count => runs[a].stored = runs[b].stored
    /\ Len(runs) > 0 => run_count = runs[Len(runs)].stored

\* Either race has happened: the duplicated link row of raindrop.py, or the
\* lost run_count step of information.py/nav.py.
C19_Witness == C19_RaindropDuplicate \/ C19_LostIncrement

(***************************************************************************)
(* Properties of clean_content (specification SpecClean)                   *)
(***************************************************************************)

\* The text contains none of the four section labels, at any position.
LabelFree(t) == \A p \in 1..Len(t) : LabelLenAt(t, p) = 0

\* A text without labels comes back unchanged apart from the trimming.
LabelFreeUnchanged ==
    (Len(cleaned) >= 1 /\ LabelFree(original)) => cleaned[1] = Strip(original)

\* C20 as stated: clean_content leaves a text that contains none of the
\* section labels unchanged apart from trimming the surrounding whitespace,
\* and applying clean_content twice gives the same result as applying it
\* once.
C20_UnchangedAndIdempotent ==
    /\ LabelFreeUnchanged
    /\ Len(cleaned) = 2 => cleaned[2] = cleaned[1]

\* The second application removed a label the first one had left.
C20_SecondPassShortens ==
    /\ Len(cleaned) = 2
    /\ Len(cleaned[2]) < Len(cleaned[1])

\* The positions of the match the claim describes at p: a label at the start
\* of a line, an optional ":" or "-", and the whitespace that follows.
LabelSpan(t, p) ==
    IF AtLineStart(t, p) /\ LabelLenAt(t, p) > 0
    THEN LET q == p + LabelLenAt(t, p)
             o == IF q <= Len(t) /\ t[q] \in {":", "-"} THEN 1 ELSE 0
         IN  p..(q + o + WsRun(t, q + o) - 1)
    ELSE {}

\* The text t without the positions in the set gone, from position p on.
RECURSIVE Without(_, _, _)
Without(t, gone, p) ==
    IF p > Len(t) THEN <<>>
    ELSE (IF p \in gone THEN <<>> ELSE <<t[p]>>) \o Without(t, gone, p + 1)

\* C21 as stated: in every script clean_content returns the text without the
\* labels at the start of its lines (each with its optional ":" or "-" and the
\* whitespace after it), and with nothing else removed but the surrounding
\* whitespace.
C21_LineStartLabelsRemoved ==
    Len(cleaned) >= 1 =>
        cleaned[1] = Strip(Without(original,
                                   UNION {LabelSpan(original, p) : p \in 1..Len(original)}, 1))

(***************************************************************************)
(* Properties of one run of raindrop.py (specification SpecRaindrop)       *)
(***************************************************************************)

\* The rows at the given positions of the sheet hold pairwise distinct links.
DistinctLinks(K) == \A a, b \in K : a # b => sheet[a].link # sheet[b].link

\* The rows the sheet held when the run started, and the rows of the run.
RowsBefore == {k \in 1..Len(sheet) : sheet[k].by = 0}
RowsOfRun == {k \in 1..Len(sheet) : sheet[k].by = 1}

\* C23: a run of fetch_and_process_raindrop appends no row for a link that
\* was in the sheet when it started and no two rows for one link, so links
\* that were pairwise distinct before the run are pairwise distinct after it.
C23_RunKeepsLinksDistinct ==
    /\ \A k \in RowsOfRun : \A b \in RowsBefore : sheet[k].link # sheet[b].link
    /\ DistinctLinks(RowsOfRun)
    /\ DistinctLinks(RowsBefore) => DistinctLinks(1..Len(sheet))

\* C23 witness: the run is over; the sheet held a link, the fetched list held
\* another link twice, both items complete, and one row was appended.
C23_Witness ==
    /\ proc[1].pc = "done"
    /\ RowsBefore # {}
    /\ Len(proc[1].items) = 2
    /\ proc[1].items[1] = proc[1].items[2]
    /\ proc[1].items[1].valid
    /\ proc[1].items[1].link \notin proc[1].snapshot
    /\ Cardinality(RowsOfRun) = 1

\* The requests of the latest summary stay within range(3).
SummaryWithinTries == \A p \in DOMAIN proc : proc[p].requests <= SUMMARY_TRIES

\* C24 as stated: generate_blog_style_summary makes at most 3 requests and
\* returns the placeholder after 3 failures, and fetch_and_process_raindrop
\* appends no row for an item whose summary is that placeholder, so that the
\* item's link stays out of the sheet and a later run tries it again.
C24_FailedSummaryNotStored ==
    /\ SummaryWithinTries
    /\ \A k \in RowsOfRun : sheet[k].summary # GPT_FAILED

\* A row of the run holds the placeholder, written after three requests.
FailedSummaryStored ==
    /\ proc[1].requests = SUMMARY_TRIES
    /\ RowsOfRun # {}
    /\ sheet[Len(sheet)].summary = GPT_FAILED
    /\ sheet[Len(sheet)].link \in proc[1].existing_links

(***************************************************************************)
(* Properties of the prompt sheet (specification SpecPrompt)               *)
(***************************************************************************)

\* C26: every run_count written by information.py, marketing.py or nav.py
\* goes to the sheet row the configuration was read from and to the column
\* the previous count was read from; in information.py and nav.py that
\* column is headed run_count, also when the run had to create it; and the
\* cell holds the written value.
C26_CountWrittenWhereRead ==
    \A n \in 1..Len(runs) :
        /\ runs[n].write = runs[n].read
        /\ script # "marketing" => sheet.header[runs[n].write[2]] = "run_count"
        /\ sheet.rows[runs[n].read[1] - 1][runs[n].read[2]] = runs[n].value

\* C26 witness: marketing.py has written the run_count of its prompt row
\* while the sheet held a second row identical to the one it read.
C26_Witness ==
    /\ script = "marketing"
    /\ Len(runs) = 1
    /\ \E m \in 1..Len(sheet.rows) : m # runs[1].write[1] - 1 /\ sheet.rows[m] = runs[1].cfg

\* The run_count column was created by the run that wrote the count, and the
\* sheet held a second row identical to the one read.
CountWrittenToNewColumn ==
    /\ proc[1].created
    /\ Len(runs) >= 1
    /\ \E m \in 1..Len(sheet.rows) : m # runs[1].write[1] - 1 /\ sheet.rows[m] = runs[1].cfg

(***************************************************************************)
(* Properties of the row loops (specification SpecBatch)                   *)
(***************************************************************************)

\* C27 as stated: in publi_sup.py the generation loop of a source row with a
\* hybrid prompt of interval N makes N + 1 posts, the last one with the
\* advanced model and the N before it with the basic model, whatever the
\* number of rows of the source sheet.
C27_HybridEndsAdvanced ==
    (script = "publi_sup" /\ proc[1].hybrid /\ proc[1].pc = "post") =>
        /\ Len(proc[1].posts) = interval + 1
        /\ proc[1].posts[interval + 1] = "advanced"
        /\ \A idx \in 1..interval : proc[1].posts[idx] = "basic"

\* The loop of a hybrid row has made all its posts with the basic model: the
\* source sheet has fewer than N + 1 rows.
HybridWithoutAdvanced ==
    /\ script = "publi_sup"
    /\ proc[1].hybrid
    /\ proc[1].pc = "post"
    /\ proc[1].j = Len(proc[1].posts)
    /\ Len(proc[1].rows) < interval + 1
    /\ \A idx \in 1..Len(proc[1].posts) : proc[1].posts[idx] = "basic"
    /\ \A k \in 1..Len(info_ws) : info_ws[k].model = "basic"

IndexOf(file) == CHOOSE n \in 1..Len(Sequence) : Sequence[n] = file

\* The files whose run_script call main has reached and left behind.
Passed == {Sequence[n] : n \in 1..(focus.next - 1)}

\* run_script was called for the file and failed: the file is missing, or
\* the script exited non-zero.
Failed(file) ==
    \/ <<file, 1>> \in {focus.exits[k] : k \in 1..Len(focus.exits)}
    \/ /\ ~focus.exists[file]
       /\ Guard(file, focus.exists)
       /\ IndexOf(file) <= focus.next
       /\ IndexOf(file) = focus.next => focus.pc = "exited"

Succeeded(file) == <<file, 0>> \in {focus.exits[k] : k \in 1..Len(focus.exits)}

Started(file) == file \in {focus.started[k] : k \in 1..Len(focus.started)}

\* C7: the scripts are started in the fixed order, each after the previous
\* one has finished; a failed required script ends the process with status 1
\* before any later script is started; the completion message is printed
\* only if every required script that was attempted succeeded.
C7_FixedOrderRequiredAbort ==
    /\ \A a, b \in 1..Len(focus.started) :
          a < b => IndexOf(focus.started[a]) < IndexOf(focus.started[b])
    /\ Len(focus.exits) = Len(focus.started) - (IF focus.pc = "running" THEN 1 ELSE 0)
    /\ \A k \in 1..Len(focus.exits) : focus.exits[k][1] = focus.started[k]
    /\ \A f \in Files :
          (Required(f) /\ Failed(f)) =>
              /\ focus.pc = "exited"
              /\ focus.status = 1
              /\ ~focus.message
              /\ \A g \in Files : IndexOf(g) > IndexOf(f) => ~Started(g)
    /\ focus.message =>
          \A f \in Files : (Required(f) /\ Guard(f, focus.exists)) => Succeeded(f)

\* C7 witness: publi_sup.py failed after the earlier scripts had run, and
\* the process has exited with status 1 without starting publi_xls.py.
C7_Witness ==
    /\ focus.pc = "exited"
    /\ focus.status = 1
    /\ focus.started = <<"raindrop.py", "publi_ad.py", "xls.py", "image.py", "publi_sup.py">>
    /\ Failed("publi_sup.py")

\* C8: a missing or failing optional script makes run_script return False,
\* never ends the process, and main goes on: every later script that main
\* has passed was started.
C8_OptionalFailureContinues ==
    /\ \A f \in {"xls.py", "image.py"} :
          (Failed(f) /\ (IndexOf(f) < focus.next \/ focus.pc \in {"done", "exited"})) =>
              /\ <<f, FALSE>> \in {focus.returned[k] : k \in 1..Len(focus.returned)}
              /\ IndexOf(f) < focus.next
              /\ \A g \in {"image.py", "publi_sup.py"} :
                    (g \in Passed /\ IndexOf(g) > IndexOf(f) /\ focus.exists[g]) => Started(g)
              /\ focus.pc = "done" => Started("publi_sup.py")
    /\ focus.pc = "exited" => Required(CurrentFile)
    /\ \A k \in 1..Len(focus.returned) :
          focus.returned[k][2] = FALSE => ~Required(focus.returned[k][1])

\* C8 witness: xls.py exited non-zero, image.py is missing, and publi_sup.py
\* was started all the same.
C8_Witness ==
    /\ Failed("xls.py")
    /\ Started("xls.py")
    /\ Failed("image.py")
    /\ ~focus.exists["image.py"]
    /\ Started("publi_sup.py")

\* C30 as stated: publi_xls.py is started only if xls.py exited with status 0
\* earlier in the same execution; once main is past the publi_xls.py call
\* with xls.py absent or failed, publi_xls.py was not started and the
\* process has not exited.
C30_PubliXlsAfterXlsSuccess ==
    /\ Started("publi_xls.py") => Succeeded("xls.py")
    /\ (focus.next > IndexOf("publi_xls.py") /\ Failed("xls.py")) =>
          /\ ~Started("publi_xls.py")
          /\ focus.pc \in {"main", "done"}

\* C30 amended: publi_xls.py is started only if the file xls.py exists,
\* whatever xls.py returned; once main is past the publi_xls.py call with
\* xls.py absent, publi_xls.py was not started, the process has not exited
\* and nothing is left but the completion message.
C30_PubliXlsIfXlsExists ==
    /\ Started("publi_xls.py") => focus.exists["xls.py"]
    /\ (focus.next > IndexOf("publi_xls.py") /\ ~focus.exists["xls.py"]) =>
          /\ ~Started("publi_xls.py")
          /\ focus.pc \in {"main", "done"}
          /\ focus.status = 0
          /\ focus.pc = "done" => focus.message
    /\ (focus.next = IndexOf("publi_xls.py") /\ ~focus.exists["xls.py"]) =>
          focus.pc = "main"

\* C30 witness: xls.py exited non-zero, publi_xls.py was started all the
\* same and the run has printed its completion message.
C30_Witness ==
    /\ <<"xls.py", 1>> \in {focus.exits[k] : k \in 1..Len(focus.exits)}
    /\ Started("publi_xls.py")
    /\ Succeeded("publi_xls.py")
    /\ focus.pc = "done"

\* The other case of C30: xls.py is absent, publi_xls.py exists and was
\* skipped, and the run has printed its completion message.
PubliXlsSkipped ==
    /\ ~focus.exists["xls.py"]
    /\ focus.exists["publi_xls.py"]
    /\ ~Started("publi_xls.py")
    /\ focus.pc = "done"
    /\ focus.message

====
